---- MODULE Spec2Model ----
(***************************************************************************)
(* A model of waferslim, a server for the SLIM protocol of FitNesse.       *)
(*                                                                         *)
(*  SpecEngine      Instructions.execute running one decoded batch against *)
(*                  an execution context and a results collector.          *)
(*  SpecSession     the responder serving one connection: banner, message  *)
(*                  loop, bye.                                             *)
(*  SpecServer      the server with two connections, whose handler threads *)
(*                  interleave.                                            *)
(*  SpecModules     two execution contexts importing module_with_state and *)
(*                  altering its state.                                    *)
(*  SpecModulesFair the same, every thread being scheduled in the end.     *)
(*  SpecConverters  the converter registry used by two threads.            *)
(*  SpecCodec       pack, unpack and _format_response applied to nested    *)
(*                  lists of strings.                                      *)
(*  SpecPackValues  pack, unpack and _format_response applied to lists     *)
(*                  that hold values other than strings.                   *)
(*  SpecUnpack      unpack applied to strings that are packed lists with   *)
(*                  one character changed or missing.                      *)
(*  SpecMultibyte   pack and unpack of strings with characters beyond      *)
(*                  ASCII, and unpack of what a client wrote for them.     *)
(*  SpecSymbols     callAndAssign and call against one execution context:  *)
(*                  the symbol table and ParamsConverter.to_args.          *)
(*  SpecResults     calls whose rows are packed for the client and         *)
(*                  unpacked by it.                                        *)
(*  SpecMethods     calls by the spellings of a method name against the    *)
(*                  classes of examples/method_names.py.                   *)
(*  SpecAliases     get_aliases applied to the method lists of classes.    *)
(*  SpecInstances   make, store_instance and get_instance against the      *)
(*                  execution context of src/execution.py.                 *)
(*  SpecPaths       add_import_path and get_module of one execution        *)
(*                  context, and sys.path, sys.modules and __import__      *)
(*                  around them.                                           *)
(*  SpecPrefixes    add_type_prefix and get_type of one execution context. *)
(*  SpecStore       store_instance, get_instance and get_library_method of *)
(*                  one execution context.                                 *)
(*  SpecStream      the message loop reading headers and bodies from a     *)
(*                  socket that delivers the bytes in segments.            *)
(***************************************************************************)
EXTENDS Integers, Sequences, FiniteSets, TLC

VARIABLES
    unpacked_list,  \* Instructions._unpacked_list: the decoded batch
    pos,            \* position of the for loop of Instructions.execute (1-based)
    collected,      \* Results._collected: the rows appended so far
    context,        \* the ExecutionContext handed to execute
    status,         \* "running", "returned" (execute returned), "raised" (an exception left execute)
    trace           \* history: what each executed instruction did

engine_vars == <<unpacked_list, pos, collected, context, status, trace>>

VARIABLES
    keepalive,      \* WaferSlimServer._keepalive
    serving,        \* the accept loop of the server runs (no shutdown yet)
    pc,             \* per connection: where its handler thread is
    wire_in,        \* per connection: the messages the client wrote, not yet read
    wire_out,       \* per connection: what the responder sent, in order
    written,        \* per connection: how many messages the client wrote
    received,       \* per connection, history: the message bodies the responder read
    its_context,    \* per connection: the ExecutionContext object respond_to got
    its_results,    \* per connection: the Results object respond_to got
    contexts,       \* the ExecutionContext objects of the process
    results,        \* the Results objects of the process (their _collected)
    batch,          \* per connection: the batch being executed
    batch_pos,      \* per connection: position of the loop of execute
    executed        \* per connection, history: what each executed instruction did

session_vars == <<keepalive, serving, pc, wire_in, wire_out, written, received,
                  its_context, its_results, contexts, results, batch, batch_pos,
                  executed>>

VARIABLES
    mpc,            \* per context: where the thread that uses it is
    isolate_imports,\* per context: ExecutionContext._isolate_imports
    modules,        \* per context: ExecutionContext._modules, name -> module object
    imported,       \* per context: the names in ExecutionContext._imported
    sys_modules,    \* sys.modules, name -> module object
    semaphore,      \* ExecutionContext._SEMAPHORE: "free" or the context holding it
    builtin_import, \* __builtin__.__import__: "real" or the context whose _import it is
    sys_path,       \* sys.path: "SYSPATH" or the context whose _path it is
    module_state,   \* per module object: the length of its STATE list
    observed        \* per context: the length of the list get_state returned

module_vars == <<mpc, isolate_imports, modules, imported, sys_modules, semaphore,
                 builtin_import, sys_path, module_state, observed>>

VARIABLES
    converters,     \* per store: has it the attribute converters, and the dict
    registered,     \* history, per thread and kind: what the thread registered last
    lookups         \* history: the calls of register_converter and converter_for

converter_vars == <<converters, registered, lookups>>

VARIABLES
    cpc,            \* where the codec run is: "start", "packed", "unpacked", "formatted"
    item_list,      \* the list handed to pack
    packed,         \* the string pack returned, as its characters
    unpacked,       \* what unpack made of it: a list, or the exception it raised
    formatted       \* what _format_response made of a packed list of some length

codec_vars == <<cpc, item_list, packed, unpacked, formatted>>

VARIABLES
    symbol_context, \* the ExecutionContext of the run
    symbol_rows,    \* the Results of the run
    symbol_log      \* history: what each instruction of the run did

symbol_vars == <<symbol_context, symbol_rows, symbol_log>>

VARIABLES
    method_context, \* the ExecutionContext of the run: classes, aliases, instances
    method_rows,    \* the Results of the run
    method_log      \* history: the calls made and the lookups of target_for

method_vars == <<method_context, method_rows, method_log>>

VARIABLES
    lookup_context, \* the ExecutionContext of the run (src/src/waferslim/execution.py)
    lookup_sys,     \* sys.modules, sys.path and __builtin__.__import__
    lookup_log      \* history: the calls made on the context

lookup_vars == <<lookup_context, lookup_sys, lookup_log>>

VARIABLES
    stream_wire,    \* the bytes the client wrote that are still in flight
    stream_buffer,  \* the bytes in the receive buffer of the socket
    stream_pc,      \* where _message_loop is: "header", "body", "left", or
                    \* the exception that ended it
    stream_length,  \* message_length of the pass
    stream_log      \* history: what each recv was asked for and returned

stream_vars == <<stream_wire, stream_buffer, stream_pc, stream_length, stream_log>>

pure_vars == <<codec_vars, symbol_vars, method_vars, lookup_vars, stream_vars>>

vars == <<engine_vars, session_vars, module_vars, converter_vars, pure_vars>>

\* what the steps of one part of the program leave alone
not_engine_vars == <<session_vars, module_vars, converter_vars, pure_vars>>
not_session_vars == <<engine_vars, module_vars, converter_vars, pure_vars>>
not_module_vars == <<engine_vars, session_vars, converter_vars, pure_vars>>
not_converter_vars == <<engine_vars, session_vars, module_vars, pure_vars>>
not_codec_vars == <<engine_vars, session_vars, module_vars, converter_vars,
                    symbol_vars, method_vars, lookup_vars, stream_vars>>
not_symbol_vars == <<engine_vars, session_vars, module_vars, converter_vars,
                     codec_vars, method_vars, lookup_vars, stream_vars>>
not_method_vars == <<engine_vars, session_vars, module_vars, converter_vars,
                     codec_vars, symbol_vars, lookup_vars, stream_vars>>
not_lookup_vars == <<engine_vars, session_vars, module_vars, converter_vars,
                     codec_vars, symbol_vars, method_vars, stream_vars>>
not_stream_vars == <<engine_vars, session_vars, module_vars, converter_vars,
                     codec_vars, symbol_vars, method_vars, lookup_vars>>

-----------------------------------------------------------------------------
(* Bounds of the model *)

\* longest batch handed to Instructions.execute
MaxBatch == 3

\* most messages a client writes on one connection
MaxMessages == 2

\* most instructions in one message of a connection
MaxSessionBatch == 1

\* the connections the server accepts
Connections == {"c1", "c2"}

\* most calls of register_converter and converter_for in a run
MaxOps == 3

\* longest list handed to pack
MaxListLen == 2

\* most operations of a run of SpecSymbols, SpecMethods, SpecAliases or
\* SpecInstances
MaxInstructions == 3

\* methods of one class
MaxMethods == 2

\* most calls on the execution context in a run of SpecPaths, SpecPrefixes or
\* SpecStore
MaxCalls == 3

-----------------------------------------------------------------------------
(* Strings of the protocol *)

_OK == "OK"
_EXCEPTION == "__EXCEPTION__:"
_STOP_TEST == _EXCEPTION \o "ABORT_SLIM_TEST:"
_NONE_STRING == "/__VOID__/"
_BAD_INSTRUCTION == "INVALID_STATEMENT"
_NO_CLASS == "NO_CLASS"
_NO_CONSTRUCTION == "COULD_NOT_INVOKE_CONSTRUCTOR"
_NO_INSTANCE == "NO_INSTANCE"
_NO_METHOD == "NO_METHOD_IN_CLASS"

\* A name with separators is kept as the sequence of its components; Join is
\* the string, DotJoin the string of a dotted name.
RECURSIVE Join(_, _)
Join(parts, sep) ==
    IF Len(parts) = 0 THEN ""
    ELSE IF Len(parts) = 1 THEN parts[1]
    ELSE parts[1] \o sep \o Join(Tail(parts), sep)

DotJoin(parts) == Join(parts, ".")

-----------------------------------------------------------------------------
(* Python values and exceptions *)

PyNone == [ty |-> "NoneType", s |-> ""]
PyStr(x) == [ty |-> "str", s |-> x]
PyObject(class_name) == [ty |-> class_name, s |-> ""]

\* An exception raised by fixture code, by what the engine looks at:
\*   stoptest      'stoptest' in type(error).__name__.lower()
\*   is_typeerror  isinstance(error, TypeError)
\*   has_args      error.args is not empty; msg is then error.args[0]
\* Every exception of the model derives from Exception, so that the except
\* clause of Instructions.execute catches it.
Exc(stoptest, is_typeerror, has_args, msg) ==
    [stoptest |-> stoptest, is_typeerror |-> is_typeerror, has_args |-> has_args,
     msg |-> msg]

NoExc == Exc(FALSE, FALSE, FALSE, "")

\* IndexError('tuple index out of range'): what error.args[0] raises on empty args
IndexError == Exc(FALSE, FALSE, TRUE, "tuple index out of range")

\* TypeError / ImportError raised by get_type
NoTypeError(name) ==
    Exc(FALSE, TRUE, TRUE,
        "Type " \o name \o " is not in a module: perhaps you want to Import it?")

-----------------------------------------------------------------------------
(* The fixture code the batches run against: module "fix" is importable from *)
(* sys.path (the server's --syspath), module "extra" only from the directory *)
(* "/extra/"; each defines the class Fixture with the one method "m".        *)

ModuleNames == {"fix", "extra"}
SysPathModules == {"fix"}
ModuleDir == [m \in ModuleNames |-> IF m = "extra" THEN "/extra/" ELSE "<sys.path>"]
ModuleClasses == [m \in ModuleNames |-> {"Fixture"}]

\* examples/method_names.py: its classes and the methods of each as get_classes
\* lists them (inspect.getmembers sorts by name), echo being the method of
\* EchoFixture that both extend
MethodNamesClasses ==
    [class_name \in {"ClassWithPythonicMethodNames", "ClassWithCamelCaseMethodNames"} |->
        IF class_name = "ClassWithPythonicMethodNames"
        THEN <<(<<"a", "_", "m", "e", "t", "h", "o", "d">>), (<<"e", "c", "h", "o">>)>>
        ELSE <<(<<"a", "M", "e", "t", "h", "o", "d">>), (<<"e", "c", "h", "o">>)>>]

\* the classes load_classes finds on a path
PathClasses(path) ==
    IF path = "waferslim.examples.method_names" THEN DOMAIN MethodNamesClasses ELSE {}

\* the attributes of an instance of the class that getattr and hasattr find
ClassMethods(class_name) ==
    IF class_name = "Fixture" THEN {"m"}
    ELSE IF class_name \in DOMAIN MethodNamesClasses
    THEN {Join(MethodNamesClasses[class_name][i], "") :
                i \in 1..Len(MethodNamesClasses[class_name])}
    ELSE {}

-----------------------------------------------------------------------------
(* ExecutionContext *)

EmptyMap == [x \in {} |-> PyNone]
Put(map, key, value) ==
    [x \in (DOMAIN map) \cup {key} |-> IF x = key THEN value ELSE map[x]]

\* ExecutionContext.__init__
NewContext ==
    [instances |-> EmptyMap, symbols |-> EmptyMap, path |-> <<>>, type_prefixes |-> <<>>,
     classes |-> EmptyMap, aliases |-> EmptyMap]

InSeq(x, seq) == \E i \in 1..Len(seq) : seq[i] = x

\* get_module: the module is found on the context's path or on sys.path, or
\* the import raises ImportError
get_module(ctx, module_parts) ==
    LET name == DotJoin(module_parts) IN
    IF name \in ModuleNames /\ (name \in SysPathModules \/ InSeq(ModuleDir[name], ctx.path))
    THEN [ok |-> TRUE, module |-> name, exc |-> NoExc]
    ELSE [ok |-> FALSE, module |-> "",
          exc |-> Exc(FALSE, FALSE, TRUE, "No module named " \o name)]

Front(seq) == SubSeq(seq, 1, Len(seq) - 1)
Last(seq) == seq[Len(seq)]

\* getattr(module, type_part), of the module get_module returned (mod)
getattr_type(name_parts, mod) ==
    IF ~mod.ok THEN [ok |-> FALSE, class |-> "", exc |-> mod.exc]
    ELSE IF Last(name_parts) \in ModuleClasses[mod.module]
    THEN [ok |-> TRUE, class |-> Last(name_parts), exc |-> NoExc]
    ELSE [ok |-> FALSE, class |-> "",
          exc |-> Exc(FALSE, TRUE, TRUE,
                      Last(name_parts) \o " could not be found in "
                          \o DotJoin(Front(name_parts)))]

\* get_type of a dotted name: module part, then getattr(module, type_part)
get_type_dotted(ctx, name_parts) ==
    getattr_type(name_parts, get_module(ctx, Front(name_parts)))

\* try ... return ... except (TypeError, ImportError): pass
return_or_pass(found, otherwise) == IF found.ok THEN found ELSE otherwise

\* the loop of get_type over the type prefixes, from prefix number i on
RECURSIVE get_type_prefixed(_, _, _)
get_type_prefixed(ctx, name_parts, i) ==
    IF i > Len(ctx.type_prefixes)
    THEN [ok |-> FALSE, class |-> "", exc |-> NoTypeError(DotJoin(name_parts))]
    ELSE return_or_pass(get_type_dotted(ctx, ctx.type_prefixes[i] \o name_parts),
                        get_type_prefixed(ctx, name_parts, i + 1))

get_type(ctx, name_parts) ==
    IF Len(name_parts) = 1
    THEN get_type_prefixed(ctx, name_parts, 1)
    ELSE get_type_dotted(ctx, name_parts)

\* get_type of src/execution.py: self.classes.get(fully_qualified_name, None);
\* the class "None" stands for the value None
NoneTarget == [ok |-> TRUE, class |-> "None", exc |-> NoExc]

ExecutionContext_get_type(ctx, fully_qualified_name) ==
    IF fully_qualified_name \in DOMAIN ctx.classes
    THEN [ok |-> TRUE, class |-> ctx.classes[fully_qualified_name], exc |-> NoExc]
    ELSE NoneTarget

\* a prefix that is already registered is not registered again
add_type_prefix_once(ctx, prefix) ==
    IF InSeq(prefix, ctx.type_prefixes) THEN ctx
    ELSE [ctx EXCEPT !.type_prefixes = Append(@, prefix)]

add_type_prefix(ctx, prefix) ==
    [ctx EXCEPT !.type_prefixes = Append(@, prefix)]

add_import_path(ctx, path) ==
    [ctx EXCEPT !.path = Append(@, path)]

store_instance(ctx, name, value) ==
    [ctx EXCEPT !.instances = Put(@, name, value)]

\* dict.get(name, None)
get_instance(ctx, name) ==
    IF name \in DOMAIN ctx.instances THEN ctx.instances[name] ELSE PyNone

\* str(value) of the default Converter, the value itself for a str
to_string(value) ==
    IF value.ty = "str" THEN value.s
    ELSE IF value.ty = "int" THEN value.s
    ELSE IF value.ty = "NoneType" THEN "None"
    ELSE "<" \o value.ty \o " object>"

store_symbol(ctx, name, value) ==
    [ctx EXCEPT !.symbols = Put(@, name, to_string(value))]

\* a name that was never stored stands for the empty string
get_symbol_or_empty(ctx, name) ==
    IF name \in DOMAIN ctx.symbols THEN ctx.symbols[name] ELSE ""

get_symbol(ctx, name) ==
    IF name \in DOMAIN ctx.symbols THEN ctx.symbols[name] ELSE "$" \o name

-----------------------------------------------------------------------------
(* Results *)

NO_RESULT_EXPECTED == [ty |-> "object", s |-> "NO_RESULT_EXPECTED"]

Row(id, outcome) == [id |-> id, outcome |-> outcome]

\* a method that returns None gives the empty outcome
Results_completed_void_is_empty(rows, id, result) ==
    Append(rows, Row(id, IF result = NO_RESULT_EXPECTED THEN _OK
                         ELSE IF result = PyNone THEN ""
                         ELSE to_string(result)))

Results_completed(rows, id, result) ==
    LET str_result ==
            IF result = NO_RESULT_EXPECTED THEN _OK
            ELSE IF result = PyNone THEN _NONE_STRING
            ELSE to_string(result)
    IN  Append(rows, Row(id, str_result))

FailureText(failed_type, cause) == failed_type \o " message:<<" \o cause \o ">>"

Results_failed(rows, id, cause, stop_test) ==
    LET failed_type == IF stop_test THEN _STOP_TEST ELSE _EXCEPTION
    IN  Append(rows, Row(id, FailureText(failed_type, cause)))

Results_collection(rows) == rows

-----------------------------------------------------------------------------
(* Instructions.  An item of the decoded list is a record:                  *)
(*   id, kind            elements 0 and 1 of the list                        *)
(*   instance, cls, method, symbol, import_arg   its parameters              *)
(*   does                what the fixture code does if the instruction gets  *)
(*                       to invoke it: return does.ret or raise does.exc     *)
(* The outcome of instruction.execute is a record: the context and the rows  *)
(* after it, whether an exception left it (raised, exc), and whether fixture *)
(* code was invoked and what it raised (invoked, thrown).                    *)

Returns(value) == [raises |-> FALSE, ret |-> value, exc |-> NoExc]
Raises(exc) == [raises |-> TRUE, ret |-> PyNone, exc |-> exc]

Done(ctx, rows, invoked, thrown) ==
    [context |-> ctx, collected |-> rows, raised |-> FALSE, exc |-> NoExc,
     invoked |-> invoked, thrown |-> thrown]

Raised(ctx, rows, exc, invoked, thrown) ==
    [context |-> ctx, collected |-> rows, raised |-> TRUE, exc |-> exc,
     invoked |-> invoked, thrown |-> thrown]

\* an unrecognised instruction completes like any other
Instruction_execute_completes(item, ctx, rows) ==
    Done(ctx, Results_completed(rows, item.id, NO_RESULT_EXPECTED), FALSE, NoExc)

\* Instruction.execute: the instruction type was not recognised
Instruction_execute(item, ctx, rows) ==
    Done(ctx, Results_failed(rows, item.id, _BAD_INSTRUCTION \o " " \o item.kind, FALSE),
         FALSE, NoExc)

Import_ispath(arg) == Len(arg.parts) > 1 /\ arg.sep \in {"/", "\\"}

Import_execute(item, ctx, rows) ==
    LET ctx2 == IF Import_ispath(item.import_arg)
                THEN add_import_path(ctx, Join(item.import_arg.parts, item.import_arg.sep))
                ELSE add_type_prefix(ctx, item.import_arg.parts)
    IN  Done(ctx2, Results_completed(rows, item.id, NO_RESULT_EXPECTED), FALSE, NoExc)

\* args[0] of the TypeError that calling None raises
NotCallable == "'NoneType' object is not callable"

\* Make.execute once get_type has returned or raised (target)
Make_construct(item, ctx, rows, target) ==
    LET name == DotJoin(item.cls)
    IN  IF ~target.ok
        THEN \* except (TypeError, ImportError)
             Done(ctx, Results_failed(rows, item.id,
                                      _NO_CLASS \o " " \o name \o " " \o target.exc.msg, FALSE),
                  FALSE, NoExc)
        ELSE IF target = NoneTarget
        THEN \* None(*args) raises TypeError, which the except clause catches
             Done(ctx, Results_failed(rows, item.id,
                                      _NO_CONSTRUCTION \o " " \o name \o " " \o NotCallable,
                                      FALSE),
                  FALSE, NoExc)
        ELSE IF ~item.does.raises
        THEN Done(store_instance(ctx, item.instance, PyObject(target.class)),
                  Results_completed(rows, item.id, NO_RESULT_EXPECTED), TRUE, NoExc)
        ELSE LET error == item.does.exc IN
             IF ~error.is_typeerror
             THEN Raised(ctx, rows, error, TRUE, error)
             ELSE \* except TypeError: error.args[0] of empty args raises IndexError
                  IF ~error.has_args
                  THEN Raised(ctx, rows, IndexError, TRUE, error)
                  ELSE Done(ctx, Results_failed(rows, item.id,
                                 _NO_CONSTRUCTION \o " " \o name \o " " \o error.msg, FALSE),
                            TRUE, error)

Make_execute(item, ctx, rows) ==
    Make_construct(item, ctx, rows, get_type(ctx, item.cls))

\* Make.execute on the ExecutionContext of src/execution.py
Make_execute_classes(item, ctx, rows) ==
    Make_construct(item, ctx, rows, ExecutionContext_get_type(ctx, DotJoin(item.cls)))

\* Call._invoke: ok says whether the call returned; result is what it returned
Call_invoke(item, ctx, rows) ==
    LET instance == get_instance(ctx, item.instance) IN
    IF item.method \notin ClassMethods(instance.ty)
    THEN \* except AttributeError
         [out |-> Done(ctx, Results_failed(rows, item.id,
                            _NO_METHOD \o " " \o item.method \o " " \o instance.ty, FALSE),
                       FALSE, NoExc),
          ok |-> FALSE, result |-> PyNone]
    ELSE IF item.does.raises
    THEN [out |-> Raised(ctx, rows, item.does.exc, TRUE, item.does.exc),
          ok |-> FALSE, result |-> PyNone]
    ELSE [out |-> Done(ctx, rows, TRUE, NoExc), ok |-> TRUE, result |-> item.does.ret]

\* Call.execute once _invoke is over (call)
Call_completed(item, ctx, rows, call) ==
    IF call.ok
    THEN Done(ctx, Results_completed(rows, item.id, call.result), TRUE, NoExc)
    ELSE call.out

Call_execute(item, ctx, rows) ==
    Call_completed(item, ctx, rows, Call_invoke(item, ctx, rows))

\* the symbol is assigned whether the call returned or not
CallAndAssign_completed_assigns_anyway(item, ctx, rows, call) ==
    IF call.ok
    THEN Done(store_symbol(ctx, item.symbol, call.result),
              Results_completed(rows, item.id, call.result), TRUE, NoExc)
    ELSE [call.out EXCEPT !.context = store_symbol(ctx, item.symbol, call.result)]

\* CallAndAssign.execute once _invoke is over (call)
CallAndAssign_completed(item, ctx, rows, call) ==
    IF call.ok
    THEN Done(store_symbol(ctx, item.symbol, call.result),
              Results_completed(rows, item.id, call.result), TRUE, NoExc)
    ELSE call.out

CallAndAssign_execute(item, ctx, rows) ==
    CallAndAssign_completed(item, ctx, rows, Call_invoke(item, ctx, rows))

_INSTRUCTION_TYPES == {"make", "import", "call", "callAndAssign"}

\* instruction_for, then execute of the instruction it made
instruction_for_execute(item, ctx, rows) ==
    IF item.kind = "make" THEN Make_execute(item, ctx, rows)
    ELSE IF item.kind = "import" THEN Import_execute(item, ctx, rows)
    ELSE IF item.kind = "call" THEN Call_execute(item, ctx, rows)
    ELSE IF item.kind = "callAndAssign" THEN CallAndAssign_execute(item, ctx, rows)
    ELSE Instruction_execute(item, ctx, rows)

\* what one pass of the loop of Instructions.execute leaves: the context and
\* the rows (after), where the loop goes (then), and a note of what happened;
\* r is the outcome of instruction.execute
loop_pass(item, rows, r, then, after) ==
    [context |-> r.context, collected |-> after, then |-> then,
     note |-> [id |-> item.id, kind |-> item.kind, instance |-> item.instance,
               symbol |-> item.symbol, invoked |-> r.invoked, thrown |-> r.thrown,
               raised |-> r.raised, exc |-> r.exc,
               rows_before |-> Len(rows), rows_after |-> Len(after), then |-> then]]

\* the try statement of Instructions.execute around instruction.execute, whose
\* outcome is r: the loop goes to "next", or it ends by "break" or by an
\* exception that leaves execute ("escape")
execute_try(item, rows, r) ==
    IF ~r.raised THEN loop_pass(item, rows, r, "next", r.collected)
    ELSE IF ~r.exc.has_args THEN loop_pass(item, rows, r, "escape", r.collected)
    ELSE loop_pass(item, rows, r, IF r.exc.stoptest THEN "break" ELSE "next",
                   Results_failed(r.collected, item.id, r.exc.msg, r.exc.stoptest))

\* one pass of the loop of Instructions.execute
Instructions_execute_item(item, ctx, rows) ==
    execute_try(item, rows, instruction_for_execute(item, ctx, rows))

-----------------------------------------------------------------------------
(* The batches of SpecEngine *)

\* the exceptions fixture code raises: every combination of what the engine
\* looks at
FixtureExceptions ==
    {Exc(st, te, ha, IF ha THEN "boom" ELSE "") :
        st \in BOOLEAN, te \in BOOLEAN, ha \in BOOLEAN}

NoArg == [sep |-> ".", parts |-> <<>>]

Item(kind, instance, cls, method, symbol, import_arg, does) ==
    [kind |-> kind, instance |-> instance, cls |-> cls, method |-> method,
     symbol |-> symbol, import_arg |-> import_arg, does |-> does]

MakeItem(instance, cls, does) == Item("make", instance, cls, "", "", NoArg, does)
CallItem(instance, method, does) == Item("call", instance, <<>>, method, "", NoArg, does)
CallAndAssignItem(symbol, instance, method, does) ==
    Item("callAndAssign", instance, <<>>, method, symbol, NoArg, does)
ImportItem(sep, parts) ==
    Item("import", "", <<>>, "", "", [sep |-> sep, parts |-> parts], Returns(PyNone))
UnknownItem(kind) == Item(kind, "", <<>>, "", "", NoArg, Returns(PyNone))

EngineItems ==
    {ImportItem("/", <<"", "extra", "">>), ImportItem(".", <<"fix">>)}
    \cup {MakeItem("a", <<"fix", "Fixture">>, Returns(PyNone)),
          MakeItem("a", <<"Fixture">>, Returns(PyNone)),
          MakeItem("a", <<"Nope">>, Returns(PyNone))}
    \cup {MakeItem("a", <<"fix", "Fixture">>, Raises(e)) : e \in FixtureExceptions}
    \cup {CallItem("a", "m", Returns(PyNone)), CallItem("a", "m", Returns(PyStr("v"))),
          CallItem("a", "nope", Returns(PyNone))}
    \cup {CallItem("a", "m", Raises(e)) : e \in {x \in FixtureExceptions : ~x.is_typeerror}}
    \cup {CallAndAssignItem("s", "a", "m", Returns(PyStr("v"))),
          UnknownItem("bogus")}

\* the client numbers the instructions of a batch
WithIds(bodies) ==
    [k \in 1..Len(bodies) |->
        [id |-> k, kind |-> bodies[k].kind, instance |-> bodies[k].instance,
         cls |-> bodies[k].cls, method |-> bodies[k].method, symbol |-> bodies[k].symbol,
         import_arg |-> bodies[k].import_arg, does |-> bodies[k].does]]

-----------------------------------------------------------------------------
(* Module imports of the ExecutionContext-s of two threads.  A module object *)
(* is named by the context whose import executed the module's code.          *)

Contexts == {"A", "B"}

\* non-waferslim/module_with_state.py
FixtureModule == "module_with_state"

NoModules == [x \in {} |-> "A"]

Del(map, keys) == [x \in (DOMAIN map) \ keys |-> map[x]]

ModulesInit ==
    /\ mpc = [x \in Contexts |-> "none"]
    /\ isolate_imports = [x \in Contexts |-> FALSE]
    /\ modules = [x \in Contexts |-> NoModules]
    /\ imported = [x \in Contexts |-> {}]
    /\ sys_modules = NoModules
    /\ semaphore = "free"
    /\ builtin_import = "real"
    /\ sys_path = "SYSPATH"
    /\ module_state = [x \in Contexts |-> 0]
    /\ observed = [x \in Contexts |-> 0]

ModulesIdle == ModulesInit

\* ExecutionContext(isolate_imports=...): _modules starts as a copy of sys.modules
ExecutionContext_init(x) ==
    /\ mpc[x] = "none"
    /\ \E isolate \in BOOLEAN :
          isolate_imports' = [isolate_imports EXCEPT ![x] = isolate]
    /\ imported' = [imported EXCEPT ![x] = {}]
    /\ modules' = [modules EXCEPT ![x] = sys_modules]
    /\ mpc' = [mpc EXCEPT ![x] = "idle"]
    /\ UNCHANGED <<sys_modules, semaphore, builtin_import, sys_path, module_state,
                   observed>>
    /\ UNCHANGED not_module_vars

\* get_module up to the call of _import_module
get_module_begin(x) ==
    /\ mpc[x] = "idle"
    /\ semaphore = "free"
    /\ semaphore' = x
    /\ builtin_import' = IF isolate_imports[x] THEN x ELSE builtin_import
    /\ sys_path' = x
    /\ mpc' = [mpc EXCEPT ![x] = "importing"]
    /\ UNCHANGED <<isolate_imports, modules, imported, sys_modules, module_state,
                   observed>>
    /\ UNCHANGED not_module_vars

\* _import: the module of _modules if there is one, else the real import,
\* which returns the module of sys.modules if there is one and otherwise
\* executes the module's code (STATE = []) and enters it in sys.modules
_import(x) ==
    /\ mpc[x] = "importing"
    /\ IF FixtureModule \in DOMAIN modules[x]
       THEN UNCHANGED <<modules, imported, sys_modules, module_state>>
       ELSE LET loaded == FixtureModule \in DOMAIN sys_modules
                mod == IF loaded THEN sys_modules[FixtureModule] ELSE x
            IN  /\ sys_modules' = Put(sys_modules, FixtureModule, mod)
                /\ module_state' = IF loaded THEN module_state
                                   ELSE [module_state EXCEPT ![mod] = 0]
                /\ imported' = [imported EXCEPT ![x] = @ \cup {FixtureModule}]
                /\ modules' = [modules EXCEPT ![x] = Put(@, FixtureModule, mod)]
    /\ mpc' = [mpc EXCEPT ![x] = "imported"]
    /\ UNCHANGED <<isolate_imports, semaphore, builtin_import, sys_path, observed>>
    /\ UNCHANGED not_module_vars

\* _import of a module that is nowhere to be found: _REAL_IMPORT raises
\* ImportError
_import_raises(x) ==
    /\ mpc[x] = "importing"
    /\ mpc' = [mpc EXCEPT ![x] = "raising"]
    /\ UNCHANGED <<isolate_imports, modules, imported, sys_modules, module_state,
                   semaphore, builtin_import, sys_path, observed>>
    /\ UNCHANGED not_module_vars

\* cleanup_imports
cleanup_imports(x) == Del(sys_modules, imported[x])

\* the semaphore is released at the end of the try block, which an import
\* that raises does not reach
get_module_end_without_finally(x) ==
    /\ mpc[x] \in {"imported", "raising"}
    /\ IF mpc[x] = "raising"
       THEN UNCHANGED <<sys_path, builtin_import, sys_modules, imported, semaphore>>
       ELSE /\ sys_path' = "SYSPATH"
            /\ IF isolate_imports[x]
               THEN /\ builtin_import' = "real"
                    /\ sys_modules' = cleanup_imports(x)
                    /\ imported' = [imported EXCEPT ![x] = {}]
               ELSE UNCHANGED <<builtin_import, sys_modules, imported>>
            /\ semaphore' = "free"
    /\ mpc' = [mpc EXCEPT ![x] = IF mpc[x] = "imported" THEN "typed" ELSE "failed"]
    /\ UNCHANGED <<isolate_imports, modules, module_state, observed>>
    /\ UNCHANGED not_module_vars

\* the finally clause of get_module, after the import returned or raised; the
\* ImportError then leaves get_module
get_module_end(x) ==
    /\ mpc[x] \in {"imported", "raising"}
    /\ sys_path' = "SYSPATH"
    /\ IF isolate_imports[x]
       THEN /\ builtin_import' = "real"
            /\ sys_modules' = cleanup_imports(x)
            /\ imported' = [imported EXCEPT ![x] = {}]
       ELSE UNCHANGED <<builtin_import, sys_modules, imported>>
    /\ semaphore' = "free"
    /\ mpc' = [mpc EXCEPT ![x] = IF mpc[x] = "imported" THEN "typed" ELSE "failed"]
    /\ UNCHANGED <<isolate_imports, modules, module_state, observed>>
    /\ UNCHANGED not_module_vars

\* StateAlteringClass().alter_state() of the class get_type returned
alter_state(x) ==
    /\ mpc[x] = "typed"
    /\ module_state' = [module_state EXCEPT ![modules[x][FixtureModule]] = @ + 1]
    /\ mpc' = [mpc EXCEPT ![x] = "altered"]
    /\ UNCHANGED <<isolate_imports, modules, imported, sys_modules, semaphore,
                   builtin_import, sys_path, observed>>
    /\ UNCHANGED not_module_vars

\* get_state()
get_state(x) ==
    /\ mpc[x] = "altered"
    /\ observed' = [observed EXCEPT ![x] = module_state[modules[x][FixtureModule]]]
    /\ mpc' = [mpc EXCEPT ![x] = "done"]
    /\ UNCHANGED <<isolate_imports, modules, imported, sys_modules, semaphore,
                   builtin_import, sys_path, module_state>>
    /\ UNCHANGED not_module_vars

ContextStep(x) ==
    \/ ExecutionContext_init(x)
    \/ get_module_begin(x)
    \/ _import(x)
    \/ _import_raises(x)
    \/ get_module_end(x)
    \/ alter_state(x)
    \/ get_state(x)

ModulesNext == \E x \in Contexts : ContextStep(x)

-----------------------------------------------------------------------------
(* The converter registry, used by the threads of two sessions *)

Threads == {"t1", "t2"}

Kinds == {"bool", "Fixture"}

\* instances with from_string and to_string that a session may register
ConverterInstances == {"TrueFalseConverter", "YesNoConverter"}

\* an instance without from_string and to_string
NotAConverter == "object"

_DEFAULT_CONVERTER == "Converter"

\* the registrations of __init_converters
StandardConverters ==
    [k \in {"bool", "int", "float", "date", "time", "datetime", "list", "tuple",
            "str", "dict"} |->
        CASE k = "bool" -> "TrueFalseConverter"
          [] k \in {"int", "float"} -> "FromConstructorConverter"
          [] k = "date" -> "DateConverter"
          [] k = "time" -> "TimeConverter"
          [] k = "datetime" -> "DatetimeConverter"
          [] k \in {"list", "tuple"} -> "IterableConverter"
          [] k = "str" -> "StrConverter"
          [] OTHER -> "DictConverter"]

\* the dicts that can hold converters: one per thread, one module-level
Stores == Threads \cup {"module"}

\* one dict for all threads: a plain module-level attribute
module_level(t) == "module"

\* __THREADLOCAL = threading.local(): the attributes of the calling thread
THREADLOCAL(t) == t

\* a store without the attribute converters
Unset == [has |-> FALSE, dict |-> [k \in {} |-> ""]]

\* __init_converters
init_converters(store) ==
    IF ~store.has THEN [has |-> TRUE, dict |-> StandardConverters] ELSE store

ConvertersInit ==
    /\ converters = [st \in Stores |-> Unset]
    /\ registered = [t \in Threads |-> [k \in Kinds |-> "none"]]
    /\ lookups = <<>>

ConvertersIdle == ConvertersInit

\* register_converter(for_type, converter_instance) in thread t
register_converter(t) ==
    /\ Len(lookups) < MaxOps
    /\ \E for_type \in Kinds, converter_instance \in ConverterInstances \cup {NotAConverter} :
          IF converter_instance \in ConverterInstances
          THEN /\ converters' = [converters EXCEPT ![THREADLOCAL(t)] =
                       [init_converters(@) EXCEPT
                           !.dict = Put(@, for_type, converter_instance)]]
               /\ registered' = [registered EXCEPT ![t][for_type] = converter_instance]
               /\ lookups' = Append(lookups, [op |-> "register", thread |-> t,
                                              kind |-> for_type, own |-> converter_instance,
                                              result |-> converter_instance])
          ELSE /\ lookups' = Append(lookups, [op |-> "register", thread |-> t,
                                              kind |-> for_type, own |-> registered[t][for_type],
                                              result |-> "TypeError"])
               /\ UNCHANGED <<converters, registered>>
    /\ UNCHANGED not_converter_vars

\* converter_for(type_or_value) in thread t
converter_for(t) ==
    /\ Len(lookups) < MaxOps
    /\ \E type_or_value \in Kinds :
          LET store == init_converters(converters[THREADLOCAL(t)])
              found == IF type_or_value \in DOMAIN store.dict
                       THEN store.dict[type_or_value]
                       ELSE _DEFAULT_CONVERTER
          IN  /\ converters' = [converters EXCEPT ![THREADLOCAL(t)] = store]
              /\ lookups' = Append(lookups, [op |-> "lookup", thread |-> t,
                                             kind |-> type_or_value,
                                             own |-> registered[t][type_or_value],
                                             result |-> found])
    /\ UNCHANGED registered
    /\ UNCHANGED not_converter_vars

ConvertersNext == \E t \in Threads : register_converter(t) \/ converter_for(t)

-----------------------------------------------------------------------------
(* The codec of protocol.py.  A string is kept as the sequence of its        *)
(* characters; a value handed to pack is a string or a list of values.       *)

_START_CHUNK == "["
_END_CHUNK == "]"
_SEPARATOR == ":"
_NUMERIC_LENGTH == 6

PyString(chars) == [is_list |-> FALSE, ty |-> "str", chars |-> chars, items |-> <<>>]
PyList(items) == [is_list |-> TRUE, ty |-> "list", chars |-> <<>>, items |-> items]

\* an item that is neither a string nor a list, by its type and its str()
PyValue(ty, chars) == [is_list |-> FALSE, ty |-> ty, chars |-> chars, items |-> <<>>]
PyNoneItem == PyValue("NoneType", <<"N", "o", "n", "e">>)

DigitChars == <<"0", "1", "2", "3", "4", "5", "6", "7", "8", "9">>

\* the decimal digits of n, as %d writes them
RECURSIVE Decimal(_)
Decimal(n) ==
    IF n < 10 THEN <<DigitChars[n + 1]>>
    ELSE Append(Decimal(n \div 10), DigitChars[(n % 10) + 1])

RECURSIVE Zeros(_)
Zeros(n) == IF n <= 0 THEN <<>> ELSE <<"0">> \o Zeros(n - 1)

\* '%06d' % n: padded with zeros to _NUMERIC_LENGTH digits, never cut
_NUMERIC_ENCODING(n) == Zeros(_NUMERIC_LENGTH - Len(Decimal(n))) \o Decimal(n)

\* '%06d%s%s' % (n, _SEPARATOR, text)
_ITEM_ENCODING(n, text) == _NUMERIC_ENCODING(n) \o <<_SEPARATOR>> \o text

\* the truth value of an item: None, 0, False and '' are false
truth(item) ==
    IF item.ty = "NoneType" THEN FALSE
    ELSE IF item.ty = "int" THEN item.chars # <<"0">>
    ELSE IF item.ty = "bool" THEN item.chars = <<"T", "r", "u", "e">>
    ELSE item.chars # <<>>

\* Characters beyond ASCII are named by their code point, and the bytes of
\* their UTF-8 encoding by their value.  A str holds bytes, a unicode holds
\* characters.
Utf8 ==
    [ch \in {"U+00E9", "U+20AC"} |->
        IF ch = "U+00E9" THEN <<"0xC3", "0xA9">> ELSE <<"0xE2", "0x82", "0xAC">>]

\* text.encode('utf-8')
RECURSIVE encode(_)
encode(chars) ==
    IF chars = <<>> THEN <<>>
    ELSE IF Head(chars) \in DOMAIN Utf8 THEN Utf8[Head(chars)] \o encode(Tail(chars))
    ELSE <<Head(chars)>> \o encode(Tail(chars))

\* the bytes begin with the encoding of the character
BeginsWith(bytes, ch) ==
    Len(bytes) >= Len(Utf8[ch]) /\ SubSeq(bytes, 1, Len(Utf8[ch])) = Utf8[ch]

\* bytes.decode('utf-8'), of bytes that are the encoding of some text
RECURSIVE decode(_)
decode(bytes) ==
    IF bytes = <<>> THEN <<>>
    ELSE IF \E ch \in DOMAIN Utf8 : BeginsWith(bytes, ch)
    THEN <<CHOOSE ch \in DOMAIN Utf8 : BeginsWith(bytes, ch)>>
         \o decode(SubSeq(bytes,
                          Len(Utf8[CHOOSE ch \in DOMAIN Utf8 : BeginsWith(bytes, ch)]) + 1,
                          Len(bytes)))
    ELSE <<Head(bytes)>> \o decode(Tail(bytes))

PyUnicode(chars) == PyValue("unicode", chars)

\* str(item) of a unicode encodes it as ASCII: UnicodeEncodeError for a
\* character beyond ASCII
str_raises(item) ==
    item.ty = "unicode" /\ \E i \in 1..Len(item.chars) : item.chars[i] \in DOMAIN Utf8

\* str(item)
str(item) == item.chars

\* item and str(item) or 'null'
str_item(item) == IF truth(item) THEN str(item) ELSE <<"n", "u", "l", "l">>

\* every part followed by the separator: ':'.join(packed) and the ':' after it
RECURSIVE join_packed(_)
join_packed(parts) ==
    IF parts = <<>> THEN <<>>
    ELSE Head(parts) \o <<_SEPARATOR>> \o join_packed(Tail(parts))

RECURSIVE pack(_)
RECURSIVE _pack_item(_)

pack(list) ==
    <<_START_CHUNK>>
    \o join_packed(<<_NUMERIC_ENCODING(Len(list))>>
                   \o [i \in 1..Len(list) |-> _pack_item(list[i])])
    \o <<_END_CHUNK>>

_pack_item(item) ==
    IF item.is_list THEN _pack_item(PyString(pack(item.items)))
    ELSE _ITEM_ENCODING(Len(str_item(item)), str_item(item))

\* pack raises what str(item) raises for one of the items
RECURSIVE pack_raises(_)
pack_raises(list) ==
    \E i \in 1..Len(list) :
        IF list[i].is_list THEN pack_raises(list[i].items)
        ELSE truth(list[i]) /\ str_raises(list[i])

\* what unpack gives: the list, or the exception that left it
Unpacked(items) == [ok |-> TRUE, items |-> items, error |-> ""]
UnpackRaised(error) == [ok |-> FALSE, items |-> <<>>, error |-> error]

\* s[a:b] of Python: from offset a up to b, cut at the end of s
Slice(s, a, b) == SubSeq(s, a + 1, IF b < Len(s) THEN b ELSE Len(s))

IsDigits(s) == s # <<>> /\ \A i \in 1..Len(s) : \E d \in 1..10 : DigitChars[d] = s[i]

DigitValue(ch) == (CHOOSE d \in 1..10 : DigitChars[d] = ch) - 1

\* int(s) for a string of digits
RECURSIVE int(_)
int(s) ==
    IF Len(s) = 1 THEN DigitValue(s[1])
    ELSE 10 * int(Front(s)) + DigitValue(Last(s))

\* possible_chunk.startswith('[') and possible_chunk.endswith(']')
_is_chunk(possible_chunk) ==
    /\ possible_chunk # <<>>
    /\ Head(possible_chunk) = _START_CHUNK
    /\ Last(possible_chunk) = _END_CHUNK

\* "" when the separator is at the offset, else the exception
_check_separator(packed_chunk, offset) ==
    IF offset >= Len(packed_chunk) THEN "IndexError"
    ELSE IF packed_chunk[offset + 1] # _SEPARATOR THEN "UnpackingError"
    ELSE ""

RECURSIVE _unpack_chunk(_)
RECURSIVE unpack_items(_, _, _, _)
RECURSIVE unpack_item(_, _, _, _, _)
RECURSIVE append_item(_, _, _, _, _)
RECURSIVE append_sub_chunk(_, _, _, _, _)

\* the for loop of _unpack_chunk from the offset on, with n items to go
unpack_items(packed_chunk, offset, n, chunks) ==
    IF n = 0 THEN Unpacked(chunks)
    ELSE IF ~IsDigits(Slice(packed_chunk, offset, offset + _NUMERIC_LENGTH))
    THEN UnpackRaised("ValueError")
    ELSE IF _check_separator(packed_chunk, offset + _NUMERIC_LENGTH) # ""
    THEN UnpackRaised(_check_separator(packed_chunk, offset + _NUMERIC_LENGTH))
    ELSE unpack_item(packed_chunk, offset + _NUMERIC_LENGTH + 1,
                     int(Slice(packed_chunk, offset, offset + _NUMERIC_LENGTH)), n, chunks)

\* ... once item_len is read
unpack_item(packed_chunk, offset, item_len, n, chunks) ==
    IF _check_separator(packed_chunk, offset + item_len) # ""
    THEN UnpackRaised(_check_separator(packed_chunk, offset + item_len))
    ELSE append_item(packed_chunk, offset + item_len + 1, n, chunks,
                     Slice(packed_chunk, offset, offset + item_len))

\* ... once the item is cut out
append_item(packed_chunk, offset, n, chunks, item) ==
    IF _is_chunk(item)
    THEN append_sub_chunk(packed_chunk, offset, n, chunks, _unpack_chunk(item))
    ELSE unpack_items(packed_chunk, offset, n - 1, Append(chunks, PyString(item)))

\* ... once the item is unpacked as a chunk of its own
append_sub_chunk(packed_chunk, offset, n, chunks, sub_chunk) ==
    IF ~sub_chunk.ok THEN sub_chunk
    ELSE unpack_items(packed_chunk, offset, n - 1, Append(chunks, PyList(sub_chunk.items)))

_unpack_chunk(packed_chunk) ==
    IF ~_is_chunk(packed_chunk) THEN UnpackRaised("UnpackingError")
    ELSE IF ~IsDigits(Slice(packed_chunk, 1, 1 + _NUMERIC_LENGTH))
    THEN UnpackRaised("ValueError")
    ELSE IF _check_separator(packed_chunk, 1 + _NUMERIC_LENGTH) # ""
    THEN UnpackRaised(_check_separator(packed_chunk, 1 + _NUMERIC_LENGTH))
    ELSE unpack_items(packed_chunk, 2 + _NUMERIC_LENGTH,
                      int(Slice(packed_chunk, 1, 1 + _NUMERIC_LENGTH)), <<>>)

unpack(packed_string) == _unpack_chunk(packed_string)

\* _format_response for a packed list of msg_bytes bytes: the header, the
\* separator, then the list
_format_response(msg_bytes) ==
    [header |-> _NUMERIC_ENCODING(msg_bytes), separator |-> _SEPARATOR,
     msg_bytes |-> msg_bytes]

\* the strings of the lists that are packed
CodecStrings ==
    {<<>>, <<"n", "u", "l", "l">>, <<"a">>, <<"a", ":", "1">>, <<"[">>,
     <<"[", "]">>, <<"[", "a", "]">>,
     <<"[", "0", "0", "0", "0", "0", "0", ":", "]">>}

\* the lists that are items of the lists that are packed
CodecSubLists ==
    {<<>>, <<PyString(<<"a">>)>>, <<PyList(<<>>)>>,
     <<PyString(<<"a">>), PyList(<<PyString(<<"a", ":", "1">>)>>)>>}

CodecItems == {PyString(s) : s \in CodecStrings} \cup {PyList(l) : l \in CodecSubLists}

\* items that are no strings: None, 0, 1, False, True
NonStringItems ==
    {PyNoneItem, PyValue("int", <<"0">>), PyValue("int", <<"1">>),
     PyValue("bool", <<"F", "a", "l", "s", "e">>), PyValue("bool", <<"T", "r", "u", "e">>)}

\* the byte lengths of packed results too long to write out
LongResponses == {999999, 1000000}

NotUnpacked == UnpackRaised("not called")
NotFormatted == [header |-> <<>>, separator |-> "", msg_bytes |-> 0]

CodecIdle ==
    /\ cpc = "idle"
    /\ item_list = <<>>
    /\ packed = <<>>
    /\ unpacked = NotUnpacked
    /\ formatted = NotFormatted

CodecInit ==
    /\ cpc = "start"
    /\ \E n \in 0..MaxListLen : \E list \in [1..n -> CodecItems] : item_list = list
    /\ packed = <<>>
    /\ unpacked = NotUnpacked
    /\ formatted = NotFormatted

\* lists of strings, values that are no strings, and lists of them
ValuesInit ==
    /\ cpc = "start"
    /\ \E n \in 0..MaxListLen :
        \E list \in [1..n -> {PyString(<<>>), PyString(<<"a">>), PyString(<<"n", "u", "l", "l">>)}
                              \cup NonStringItems
                              \cup {PyList(<<v>>) : v \in NonStringItems}] :
            item_list = list
    /\ packed = <<>>
    /\ unpacked = NotUnpacked
    /\ formatted = NotFormatted

\* the packed lists that the strings a peer sends are made of
PackedLists ==
    {pack(<<>>), pack(<<PyString(<<"a">>)>>), pack(<<PyList(<<PyString(<<"a">>)>>)>>)}

\* a string with the character at position i replaced, and with it left out
Replaced(chars, i, ch) == [chars EXCEPT ![i] = ch]
Without(chars, i) == SubSeq(chars, 1, i - 1) \o SubSeq(chars, i + 1, Len(chars))

\* what a peer can send: the packed lists, and each of them with one
\* character replaced or left out
ReceivedStrings ==
    PackedLists
    \cup UNION {{Replaced(chars, i, ch) : i \in 1..Len(chars),
                                          ch \in {"x", ":", "0", "2", "[", "]"}}
                : chars \in PackedLists}
    \cup UNION {{Without(chars, i) : i \in 1..Len(chars)} : chars \in PackedLists}

\* a string has arrived and is about to be unpacked
ReceivedInit ==
    /\ cpc = "packed"
    /\ item_list = <<>>
    /\ packed \in ReceivedStrings
    /\ unpacked = NotUnpacked
    /\ formatted = NotFormatted

Pack ==
    /\ cpc = "start"
    /\ IF pack_raises(item_list)
       THEN packed' = packed /\ cpc' = "raised"
       ELSE packed' = pack(item_list) /\ cpc' = "packed"
    /\ UNCHANGED <<item_list, unpacked, formatted>>
    /\ UNCHANGED not_codec_vars

Unpack ==
    /\ cpc = "packed"
    /\ unpacked' = unpack(packed)
    /\ cpc' = "unpacked"
    /\ UNCHANGED <<item_list, packed, formatted>>
    /\ UNCHANGED not_codec_vars

\* the packed list goes out as a response, as does one of a length too long
\* to write out
FormatResponse ==
    /\ cpc = "packed"
    /\ \E msg_bytes \in {Len(packed)} \cup LongResponses :
            formatted' = _format_response(msg_bytes)
    /\ cpc' = "formatted"
    /\ UNCHANGED <<item_list, packed, unpacked>>
    /\ UNCHANGED not_codec_vars

CodecNext == Pack \/ Unpack \/ FormatResponse

\* strings with characters beyond ASCII: as unicode, and as the str of their
\* UTF-8 bytes
MultibyteItems ==
    {PyUnicode(<<"a">>), PyUnicode(<<"U+00E9">>), PyUnicode(<<"a", "U+20AC">>),
     PyString(<<"a">>), PyString(encode(<<"U+00E9">>)), PyString(encode(<<"a", "U+20AC">>))}

MultibyteInit ==
    /\ cpc = "start"
    /\ \E n \in 1..MaxListLen : \E list \in [1..n -> MultibyteItems] : item_list = list
    /\ packed = <<>>
    /\ unpacked = NotUnpacked
    /\ formatted = NotFormatted

\* the bytes of an item's payload
Bytes(item) == IF item.ty = "unicode" THEN encode(item.chars) ELSE item.chars

\* what a client writes for a list: every length counts the bytes of the payload
FramedBytes(list) ==
    <<_START_CHUNK>>
    \o join_packed(<<_NUMERIC_ENCODING(Len(list))>>
                   \o [i \in 1..Len(list) |->
                         _ITEM_ENCODING(Len(Bytes(list[i])), Bytes(list[i]))])
    \o <<_END_CHUNK>>

\* the message loop reads the bytes a client wrote for the list, decodes them
\* and unpacks the text
ReceivePacked ==
    /\ cpc = "start"
    /\ packed' = decode(FramedBytes(item_list))
    /\ unpacked' = unpack(decode(FramedBytes(item_list)))
    /\ cpc' = "received"
    /\ UNCHANGED <<item_list, formatted>>
    /\ UNCHANGED not_codec_vars

MultibyteNext == Pack \/ Unpack \/ ReceivePacked

UnpackNext == Unpack

-----------------------------------------------------------------------------
(* ParamsConverter of execution.py and the symbol table.  A parameter is a   *)
(* string, kept as the sequence of its characters, or a list of parameters;  *)
(* an argument is a string or a tuple of arguments.                           *)

\* [a-zA-Z]
Letters ==
    {"a", "b", "c", "d", "e", "f", "g", "h", "i", "j", "k", "l", "m", "n", "o", "p",
     "q", "r", "s", "t", "u", "v", "w", "x", "y", "z",
     "A", "B", "C", "D", "E", "F", "G", "H", "I", "J", "K", "L", "M", "N", "O", "P",
     "Q", "R", "S", "T", "U", "V", "W", "X", "Y", "Z"}

\* \w
WordChars == Letters \cup {DigitChars[d] : d \in 1..10} \cup {"_"}

\* the count that _lookup_symbol hands to sub: the value of the flag re.S
re_S == 16

StrArg(s) == [is_tuple |-> FALSE, s |-> s, items |-> <<>>]
TupleArg(items) == [is_tuple |-> TRUE, s |-> "", items |-> items]

\* the offset of the last character of the match of [a-zA-Z]\w* that goes up
\* to offset j at least
RECURSIVE match_end(_, _)
match_end(chars, j) ==
    IF j < Len(chars) /\ chars[j + 1] \in WordChars THEN match_end(chars, j + 1) ELSE j

\* _match: the substitution for the identifier matched
_match(ctx, identifier) == get_symbol(ctx, Join(identifier, ""))

\* _SYMBOL_PATTERN.sub(self._match, chars, count) from offset i on, with
\* count substitutions still to make
RECURSIVE _SYMBOL_PATTERN_sub(_, _, _, _)
_SYMBOL_PATTERN_sub(ctx, chars, i, count) ==
    IF i > Len(chars) THEN ""
    ELSE IF count > 0 /\ chars[i] = "$" /\ i < Len(chars) /\ chars[i + 1] \in Letters
    THEN _match(ctx, SubSeq(chars, i + 1, match_end(chars, i + 1)))
         \o _SYMBOL_PATTERN_sub(ctx, chars, match_end(chars, i + 1) + 1, count - 1)
    ELSE chars[i] \o _SYMBOL_PATTERN_sub(ctx, chars, i + 1, count)

RECURSIVE to_args(_, _, _)
RECURSIVE _lookup_symbol(_, _)

to_args(ctx, params, from_position) ==
    TupleArg([k \in 1..(Len(params) - from_position) |->
                _lookup_symbol(ctx, params[k + from_position])])

_lookup_symbol(ctx, possible_symbol) ==
    IF possible_symbol.is_list THEN to_args(ctx, possible_symbol.items, 0)
    ELSE StrArg(_SYMBOL_PATTERN_sub(ctx, possible_symbol.chars, 1, re_S))

\* ExecutionContext.to_args
ExecutionContext_to_args(ctx, params, from_position) == to_args(ctx, params, from_position)

\* text, n times over
RECURSIVE Times(_, _)
Times(chars, n) == IF n = 0 THEN <<>> ELSE chars \o Times(chars, n - 1)

\* the symbols a run assigns and looks up; "Z" is never assigned
AssignedSymbols == {"s", "id"}
SymbolNames == AssignedSymbols \cup {"Z"}

\* what the fixture method returns to callAndAssign
PyInt(digits) == [ty |-> "int", s |-> digits]
ReturnValues == {PyStr("v"), PyStr(""), PyInt("0"), PyNone}

\* the parameters a call passes after the instance and the method
CallParams ==
    {<<PyString(<<"$", "s">>)>>,
     <<PyString(<<"$", "Z">>)>>,
     <<PyString(<<"C", "$">>), PyString(<<"i", "d", "=", "$", "i", "d">>)>>,
     <<PyString(<<"$", "1">>), PyList(<<PyString(<<"$", "s", "_">>), PyString(<<"$", "s">>)>>)>>,
     <<PyString(Times(<<"$", "s">>, re_S + 1))>>}

SymbolsIdle ==
    /\ symbol_context = NewContext
    /\ symbol_rows = <<>>
    /\ symbol_log = <<>>

\* a session that has made the instance "a" of the class Fixture
SymbolsInit ==
    /\ symbol_context = store_instance(NewContext, "a", PyObject("Fixture"))
    /\ symbol_rows = <<>>
    /\ symbol_log = <<>>

\* the instruction of the run that comes next
SymbolItem(body) == [WithIds(<<body>>)[1] EXCEPT !.id = Len(symbol_log) + 1]

\* what execute of an instruction leaves (step), and what the fixture got
AfterSymbolStep(item, params, value, args, step) ==
    /\ symbol_context' = step.context
    /\ symbol_rows' = step.collected
    /\ symbol_log' = Append(symbol_log,
            [kind |-> item.kind, symbol |-> item.symbol, params |-> params,
             value |-> value, args |-> args,
             table_before |-> symbol_context.symbols,
             table_after |-> step.context.symbols,
             outcome |-> Last(step.collected).outcome])

\* callAndAssign <symbol>, a, m: the method returns value
SymbolCallAndAssign ==
    /\ Len(symbol_log) < MaxInstructions
    /\ \E symbol \in AssignedSymbols, value \in ReturnValues :
        AfterSymbolStep(SymbolItem(CallAndAssignItem(symbol, "a", "m", Returns(value))),
                        <<>>, value,
                        ExecutionContext_to_args(symbol_context, <<>>, 0),
                        Instructions_execute_item(
                            SymbolItem(CallAndAssignItem(symbol, "a", "m", Returns(value))),
                            symbol_context, symbol_rows))
    /\ UNCHANGED not_symbol_vars

\* call a, m, <params>: the method gets to_args(params, 2)
SymbolCall ==
    /\ Len(symbol_log) < MaxInstructions
    /\ \E params \in CallParams :
        AfterSymbolStep(SymbolItem(CallItem("a", "m", Returns(PyStr("v")))),
                        params, PyStr("v"),
                        ExecutionContext_to_args(symbol_context,
                            <<PyString(<<"a">>), PyString(<<"m">>)>> \o params, 2),
                        Instructions_execute_item(
                            SymbolItem(CallItem("a", "m", Returns(PyStr("v")))),
                            symbol_context, symbol_rows))
    /\ UNCHANGED not_symbol_vars

\* get_symbol(name), called on the context
SymbolLookup ==
    /\ Len(symbol_log) < MaxInstructions
    /\ \E name \in SymbolNames :
        symbol_log' = Append(symbol_log,
            [kind |-> "get_symbol", symbol |-> name, params |-> <<>>,
             value |-> PyNone, args |-> StrArg(get_symbol(symbol_context, name)),
             table_before |-> symbol_context.symbols,
             table_after |-> symbol_context.symbols,
             outcome |-> ""])
    /\ UNCHANGED <<symbol_context, symbol_rows>>
    /\ UNCHANGED not_symbol_vars

SymbolsNext == SymbolCallAndAssign \/ SymbolCall \/ SymbolLookup

\* call a, m: the method returns value
SymbolCallReturning ==
    /\ Len(symbol_log) < MaxInstructions
    /\ \E value \in ReturnValues :
        AfterSymbolStep(SymbolItem(CallItem("a", "m", Returns(value))),
                        <<>>, value,
                        ExecutionContext_to_args(symbol_context, <<>>, 0),
                        Instructions_execute_item(
                            SymbolItem(CallItem("a", "m", Returns(value))),
                            symbol_context, symbol_rows))
    /\ UNCHANGED not_symbol_vars

\* the characters of the outcomes of these calls
Chars(text) ==
    CASE text = "" -> <<>>
      [] text = "v" -> <<"v">>
      [] text = "0" -> <<"0">>
      [] text = _NONE_STRING -> <<"/", "_", "_", "V", "O", "I", "D", "_", "_", "/">>

\* results.collection(): each row a list of the id and the outcome
RowItems(rows) ==
    [k \in 1..Len(rows) |->
        PyList(<<PyString(Decimal(rows[k].id)), PyString(Chars(rows[k].outcome))>>)]

\* the responder packs the rows collected so far; the client unpacks them
SymbolRespond ==
    /\ symbol_rows # <<>>
    /\ packed' = pack(RowItems(symbol_rows))
    /\ unpacked' = unpack(pack(RowItems(symbol_rows)))
    /\ UNCHANGED <<cpc, item_list, formatted>>
    /\ UNCHANGED not_codec_vars

ResultsNext == SymbolCallReturning \/ SymbolRespond

-----------------------------------------------------------------------------
(* Method names: the aliases of ExecutionContext and target_for, and calls   *)
(* against the classes of examples/method_names.py.  A method name is kept   *)
(* as the sequence of its characters where its spelling is converted.        *)

LowerCase ==
    <<"a", "b", "c", "d", "e", "f", "g", "h", "i", "j", "k", "l", "m", "n", "o", "p",
      "q", "r", "s", "t", "u", "v", "w", "x", "y", "z">>
UpperCase ==
    <<"A", "B", "C", "D", "E", "F", "G", "H", "I", "J", "K", "L", "M", "N", "O", "P",
      "Q", "R", "S", "T", "U", "V", "W", "X", "Y", "Z">>

\* str.upper and str.lower of one character
upper(ch) ==
    IF \E i \in 1..26 : LowerCase[i] = ch
    THEN UpperCase[CHOOSE i \in 1..26 : LowerCase[i] = ch] ELSE ch
lower(ch) ==
    IF \E i \in 1..26 : UpperCase[i] = ch
    THEN LowerCase[CHOOSE i \in 1..26 : UpperCase[i] = ch] ELSE ch

\* re.sub('_(.)', lambda m: m.group(1).upper(), method_name) from offset i on
RECURSIVE camel_case(_, _)
camel_case(method_name, i) ==
    IF i > Len(method_name) THEN <<>>
    ELSE IF method_name[i] = "_" /\ i < Len(method_name)
    THEN <<upper(method_name[i + 1])>> \o camel_case(method_name, i + 2)
    ELSE <<method_name[i]>> \o camel_case(method_name, i + 1)

\* text[:1].lower() + text[1:] and text[:1].upper() + text[1:]
first_lower(text) == IF text = <<>> THEN <<>> ELSE <<lower(Head(text))>> \o Tail(text)
first_upper(text) == IF text = <<>> THEN <<>> ELSE <<upper(Head(text))>> \o Tail(text)

to_lower_camel_case(method_name) == first_lower(camel_case(method_name, 1))
to_upper_camel_case(method_name) == first_upper(camel_case(method_name, 1))

\* A dict is read in the order of its keys, and a pair built from a later key
\* replaces the pair an earlier key gave the same spelling.  methods is that
\* order: the order of the list under Python 3, any order under Python 2.
UpperKeys(methods) == {Join(to_upper_camel_case(methods[i]), "") : i \in 1..Len(methods)}
LowerKeys(methods) == {Join(to_lower_camel_case(methods[i]), "") : i \in 1..Len(methods)}

\* the name the last pair with this key holds
LastUpper(methods, key) ==
    methods[CHOOSE i \in 1..Len(methods) :
                /\ Join(to_upper_camel_case(methods[i]), "") = key
                /\ \A j \in (i + 1)..Len(methods) :
                        Join(to_upper_camel_case(methods[j]), "") # key]
LastLower(methods, key) ==
    methods[CHOOSE i \in 1..Len(methods) :
                /\ Join(to_lower_camel_case(methods[i]), "") = key
                /\ \A j \in (i + 1)..Len(methods) :
                        Join(to_lower_camel_case(methods[j]), "") # key]

\* convention_aliases: the lowerCamel spellings, updated by the UpperCamel ones
convention_aliases(methods) ==
    [key \in LowerKeys(methods) \cup UpperKeys(methods) |->
        IF key \in UpperKeys(methods)
        THEN Join(LastUpper(methods, key), "")
        ELSE Join(LastLower(methods, key), "")]

\* get_aliases: every method under its own name, updated by convention_aliases
get_aliases(methods) ==
    [key \in {Join(methods[i], "") : i \in 1..Len(methods)}
              \cup DOMAIN convention_aliases(methods) |->
        IF key \in DOMAIN convention_aliases(methods)
        THEN convention_aliases(methods)[key] ELSE key]

\* import_path: the classes load_classes finds, each with its aliases
import_path(ctx, path) ==
    [ctx EXCEPT
        !.classes = [name \in (DOMAIN @) \cup PathClasses(path) |->
                        IF name \in PathClasses(path) THEN name ELSE @[name]],
        !.aliases = [name \in (DOMAIN @) \cup PathClasses(path) |->
                        IF name \in PathClasses(path)
                        THEN get_aliases(MethodNamesClasses[name]) ELSE @[name]]]

\* what target_for does: raise, or return the method (target) or None
TargetRaised(error) == [raised |-> error, target |-> ""]
Target(method_name) == [raised |-> "", target |-> method_name]
NoTarget == [raised |-> "", target |-> "None"]

target_for(ctx, instance, method_name) ==
    IF instance.ty \notin DOMAIN ctx.aliases THEN TargetRaised("KeyError")
    ELSE IF method_name \notin DOMAIN ctx.aliases[instance.ty] THEN TargetRaised("KeyError")
    ELSE IF ctx.aliases[instance.ty][method_name] \in ClassMethods(instance.ty)
    THEN Target(ctx.aliases[instance.ty][method_name])
    ELSE NoTarget

\* the spellings that calls name
Spellings ==
    {<<"a", "_", "m", "e", "t", "h", "o", "d">>, <<"a", "M", "e", "t", "h", "o", "d">>,
     <<"A", "M", "e", "t", "h", "o", "d">>, <<"e", "c", "h", "o">>, <<"E", "c", "h", "o">>}

\* no alias map
NoAliases == [x \in {} |-> ""]

\* the instances of the run and their classes
MethodInstances == {"pythonic", "camel"}
InstanceClass(name) ==
    IF name = "pythonic" THEN "ClassWithPythonicMethodNames"
    ELSE "ClassWithCamelCaseMethodNames"

MethodsIdle ==
    /\ method_context = NewContext
    /\ method_rows = <<>>
    /\ method_log = <<>>

\* a session that has imported examples/method_names.py and made an instance
\* of each of its classes
MethodsInit ==
    /\ method_context =
            store_instance(
                store_instance(import_path(NewContext, "waferslim.examples.method_names"),
                               "pythonic", PyObject(InstanceClass("pythonic"))),
                "camel", PyObject(InstanceClass("camel")))
    /\ method_rows = <<>>
    /\ method_log = <<>>

MethodItem(body) == [WithIds(<<body>>)[1] EXCEPT !.id = Len(method_log) + 1]

\* what execute of the call leaves (step)
AfterMethodCall(item, step) ==
    /\ method_context' = step.context
    /\ method_rows' = step.collected
    /\ method_log' = Append(method_log,
            [op |-> "call", instance |-> item.instance,
             class |-> InstanceClass(item.instance), method |-> item.method,
             invoked |-> step.note.invoked, outcome |-> Last(step.collected).outcome,
             raised |-> "", target |-> "", methods |-> <<>>, aliases |-> NoAliases])

\* what execute of the make leaves (step)
AfterMethodMake(item, step) ==
    /\ method_context' = step.context
    /\ method_rows' = step.collected
    /\ method_log' = Append(method_log,
            [op |-> "make", instance |-> item.instance,
             class |-> DotJoin(item.cls), method |-> "",
             invoked |-> step.note.invoked,
             outcome |-> IF Len(step.collected) > Len(method_rows)
                         THEN Last(step.collected).outcome ELSE "",
             raised |-> IF step.then = "escape" THEN "escape" ELSE "",
             target |-> ExecutionContext_get_type(method_context, DotJoin(item.cls)).class,
             methods |-> <<>>, aliases |-> NoAliases])

\* call <instance>, <spelling>, hello: the method echoes its argument
MethodCall ==
    /\ Len(method_log) < MaxInstructions
    /\ \E instance \in MethodInstances, name \in Spellings :
        AfterMethodCall(
            MethodItem(CallItem(instance, Join(name, ""), Returns(PyStr("hello")))),
            Instructions_execute_item(
                MethodItem(CallItem(instance, Join(name, ""), Returns(PyStr("hello")))),
                method_context, method_rows))
    /\ UNCHANGED not_method_vars

\* target_for(instance, spelling), called on the context
MethodTargetFor ==
    /\ Len(method_log) < MaxInstructions
    /\ \E instance \in MethodInstances, name \in Spellings :
        method_log' = Append(method_log,
            [op |-> "target_for", instance |-> instance,
             class |-> InstanceClass(instance), method |-> Join(name, ""),
             invoked |-> FALSE, outcome |-> "",
             raised |-> target_for(method_context,
                                   get_instance(method_context, instance),
                                   Join(name, "")).raised,
             target |-> target_for(method_context,
                                   get_instance(method_context, instance),
                                   Join(name, "")).target,
             methods |-> <<>>, aliases |-> NoAliases])
    /\ UNCHANGED <<method_context, method_rows>>
    /\ UNCHANGED not_method_vars

\* the class names that a make names: a class import_path registered, the same
\* class by its dotted name, and a class that exists nowhere
MakeClassNames ==
    {<<"ClassWithPythonicMethodNames">>,
     <<"waferslim", "examples", "method_names", "ClassWithPythonicMethodNames">>,
     <<"Nope">>}

\* make <instance>, <class>: Make.execute on the context, inside the try of
\* Instructions.execute
MethodMake ==
    /\ Len(method_log) < MaxInstructions
    /\ \E instance \in {"pythonic", "made"}, cls \in MakeClassNames,
          does \in {Returns(PyNone), Raises(Exc(FALSE, TRUE, TRUE, "boom"))} :
        AfterMethodMake(
            MethodItem(MakeItem(instance, cls, does)),
            execute_try(MethodItem(MakeItem(instance, cls, does)), method_rows,
                        Make_execute_classes(MethodItem(MakeItem(instance, cls, does)),
                                             method_context, method_rows)))
    /\ UNCHANGED not_method_vars

\* the values store_instance is given: an object, or None
StoredValues == {PyObject("ClassWithCamelCaseMethodNames"), PyNone}

\* the entry of the log for a store_instance or get_instance of value
InstanceEntry(op, name, value) ==
    [op |-> op, instance |-> name, class |-> "", method |-> "", invoked |-> FALSE,
     outcome |-> "", raised |-> "", target |-> value.ty,
     methods |-> <<>>, aliases |-> NoAliases]

\* store_instance(name, value), called on the context
MethodStoreInstance ==
    /\ Len(method_log) < MaxInstructions
    /\ \E name \in {"pythonic", "made"}, value \in StoredValues :
        /\ method_context' = store_instance(method_context, name, value)
        /\ method_log' = Append(method_log, InstanceEntry("store_instance", name, value))
    /\ UNCHANGED method_rows
    /\ UNCHANGED not_method_vars

\* get_instance(name), called on the context: target is the type of what it
\* returns
MethodGetInstance ==
    /\ Len(method_log) < MaxInstructions
    /\ \E name \in {"pythonic", "made", "other"} :
        method_log' = Append(method_log,
            InstanceEntry("get_instance", name, get_instance(method_context, name)))
    /\ UNCHANGED <<method_context, method_rows>>
    /\ UNCHANGED not_method_vars

\* the lists of method names a class can have, in the order their dict is read
MethodLists ==
    {methods \in UNION {[1..n -> Spellings] : n \in 1..MaxMethods} :
        \A i, j \in 1..Len(methods) : i # j => methods[i] # methods[j]}

\* ExecutionContext.get_aliases(methods), called as import_path calls it
MethodGetAliases ==
    /\ Len(method_log) < MaxInstructions
    /\ \E methods \in MethodLists :
        method_log' = Append(method_log,
            [op |-> "get_aliases", instance |-> "", class |-> "", method |-> "",
             invoked |-> FALSE, outcome |-> "", raised |-> "", target |-> "",
             methods |-> methods, aliases |-> get_aliases(methods)])
    /\ UNCHANGED <<method_context, method_rows>>
    /\ UNCHANGED not_method_vars

MethodsNext == MethodCall \/ MethodTargetFor

\* the alias maps of classes
AliasesNext == MethodGetAliases

\* makes and the instances of the context
InstancesNext == MethodMake \/ MethodStoreInstance \/ MethodGetInstance

-----------------------------------------------------------------------------
(* The server and its connections.                                           *)
(* A message body is a record: raw is its text when it is no packed list    *)
(* ("bye", or bytes unpack cannot decode), list the decoded list when it is. *)

_VERSION == "Slim -- V0.0\n"
_DISCONNECT == "bye"

RawBody(text) == [is_list |-> FALSE, raw |-> text, list |-> <<>>]
ListBody(list) == [is_list |-> TRUE, raw |-> "", list |-> list]

\* what recv returns for a body of which the socket delivers only a part
Truncated(body) ==
    IF body.is_list THEN RawBody("[...") ELSE RawBody("by")

\* what the responder sends: the banner as it is, a response framed by
\* _format_response (text: the bytes of an unframed send)
Banner == [framed |-> FALSE, text |-> _VERSION, rows |-> <<>>]
Response(rows) == [framed |-> TRUE, text |-> "", rows |-> rows]

\* the ExecutionContext and the Results made once, when the def statement of
\* respond_to is executed: execution_context=ExecutionContext(), results=Results()
DefaultObject == "default"

\* the ExecutionContext and Results objects of the process
Objects == {DefaultObject}

\* handle enters the responder without arguments, so the execution_context
\* parameter of respond_to is bound to its default value
respond_to_execution_context(c) == DefaultObject

\* ... and so is the results parameter
respond_to_results(c) == DefaultObject

\* the banner goes through _format_response like a response
send_ack_framed(sent) == Append(sent, [framed |-> TRUE, text |-> _VERSION, rows |-> <<>>])

\* _send_ack
_send_ack(sent) == Append(sent, Banner)

\* the comparison never succeeds
never_disconnect(data) == FALSE

\* _DISCONNECT == data
IsDisconnect(data) == ~data.is_list /\ data.raw = _DISCONNECT

\* unpack makes a list of whatever it is given
unpack_never_raises(data) == FALSE

\* unpack(data) raises: the bytes are no packed list
unpack_raises(data) == ~data.is_list

\* the server shuts down whenever a handler is done
done_regardless(up) == FALSE

\* WaferSlimServer.done: shutdown unless the server was started with
\* keepalive; up says whether the accept loop still runs
done(up) == IF ~keepalive THEN FALSE ELSE up

SessionItems ==
    {MakeItem("a", <<"fix", "Fixture">>, Returns(PyNone)),
     CallItem("a", "m", Returns(PyStr("v"))),
     CallAndAssignItem("s", "a", "m", Returns(PyStr("v"))),
     CallItem("a", "m", Raises(Exc(FALSE, FALSE, FALSE, "")))}

\* the client numbers its instructions by connection, message and position
WithSessionIds(bodies, c, m) ==
    [k \in 1..Len(bodies) |->
        [id |-> <<c, m, k>>, kind |-> bodies[k].kind, instance |-> bodies[k].instance,
         cls |-> bodies[k].cls, method |-> bodies[k].method, symbol |-> bodies[k].symbol,
         import_arg |-> bodies[k].import_arg, does |-> bodies[k].does]]

SessionIdle ==
    /\ keepalive = FALSE
    /\ serving = FALSE
    /\ pc = [c \in Connections |-> "none"]
    /\ wire_in = [c \in Connections |-> <<>>]
    /\ wire_out = [c \in Connections |-> <<>>]
    /\ written = [c \in Connections |-> 0]
    /\ received = [c \in Connections |-> <<>>]
    /\ its_context = [c \in Connections |-> DefaultObject]
    /\ its_results = [c \in Connections |-> DefaultObject]
    /\ contexts = [o \in Objects |-> NewContext]
    /\ results = [o \in Objects |-> <<>>]
    /\ batch = [c \in Connections |-> <<>>]
    /\ batch_pos = [c \in Connections |-> 1]
    /\ executed = [c \in Connections |-> <<>>]

EngineIdle ==
    /\ unpacked_list = <<>>
    /\ pos = 1
    /\ collected = <<>>
    /\ context = NewContext
    /\ status = "returned"
    /\ trace = <<>>

SessionInit ==
    /\ keepalive \in BOOLEAN
    /\ serving = TRUE
    /\ pc = [c \in Connections |-> "none"]
    /\ wire_in = [c \in Connections |-> <<>>]
    /\ wire_out = [c \in Connections |-> <<>>]
    /\ written = [c \in Connections |-> 0]
    /\ received = [c \in Connections |-> <<>>]
    /\ its_context = [c \in Connections |-> DefaultObject]
    /\ its_results = [c \in Connections |-> DefaultObject]
    /\ contexts = [o \in Objects |-> NewContext]
    /\ results = [o \in Objects |-> <<>>]
    /\ batch = [c \in Connections |-> <<>>]
    /\ batch_pos = [c \in Connections |-> 1]
    /\ executed = [c \in Connections |-> <<>>]

\* the server accepts connection c and starts a thread that runs handle, which
\* enters the responder: the context and the results of the session are bound
Accept(c) ==
    /\ serving
    /\ pc[c] = "none"
    /\ pc' = [pc EXCEPT ![c] = "ack"]
    /\ its_context' = [its_context EXCEPT ![c] = respond_to_execution_context(c)]
    /\ its_results' = [its_results EXCEPT ![c] = respond_to_results(c)]
    /\ UNCHANGED <<keepalive, serving, wire_in, wire_out, written, received,
                   contexts, results, batch, batch_pos, executed>>
    /\ UNCHANGED not_session_vars

\* the client writes a message: bye, a packed batch, or bytes that are neither
ClientWrite(c) ==
    /\ pc[c] \in {"ack", "loop", "execute"}
    /\ written[c] < MaxMessages
    /\ Len(wire_in[c]) = 0
    /\ \E body \in {RawBody(_DISCONNECT), RawBody("hello")}
                   \cup {ListBody(WithSessionIds(b, c, written[c] + 1)) :
                           b \in UNION {[1..n -> SessionItems] : n \in 0..MaxSessionBatch}} :
            wire_in' = [wire_in EXCEPT ![c] = Append(@, body)]
    /\ written' = [written EXCEPT ![c] = @ + 1]
    /\ UNCHANGED <<keepalive, serving, pc, wire_out, received, its_context,
                   its_results, contexts, results, batch, batch_pos, executed>>
    /\ UNCHANGED not_session_vars

\* respond_to: _send_ack, then into _message_loop
SendAck(c) ==
    /\ pc[c] = "ack"
    /\ wire_out' = [wire_out EXCEPT ![c] = _send_ack(@)]
    /\ pc' = [pc EXCEPT ![c] = "loop"]
    /\ UNCHANGED <<keepalive, serving, wire_in, written, received, its_context,
                   its_results, contexts, results, batch, batch_pos, executed>>
    /\ UNCHANGED not_session_vars

\* _message_loop reads the header and the body of the next message: on bye it
\* leaves the loop, a packed list goes to Instructions(...).execute, and
\* anything unpack cannot decode ends the handler with the exception.  The
\* socket may deliver only a part of the body (short).
ReceiveMessage(c) ==
    /\ pc[c] = "loop"
    /\ Len(wire_in[c]) > 0
    /\ \E short \in BOOLEAN :
        LET data == IF short THEN Truncated(Head(wire_in[c])) ELSE Head(wire_in[c]) IN
        /\ received' = [received EXCEPT ![c] =
                Append(@, [data |-> data, sent_before |-> Len(wire_out[c]),
                           executed_before |-> Len(executed[c])])]
        /\ IF IsDisconnect(data)
           THEN /\ pc' = [pc EXCEPT ![c] = "left"]
                /\ UNCHANGED <<batch, batch_pos>>
           ELSE IF ~unpack_raises(data)
           THEN /\ pc' = [pc EXCEPT ![c] = "execute"]
                /\ batch' = [batch EXCEPT ![c] = data.list]
                /\ batch_pos' = [batch_pos EXCEPT ![c] = 1]
           ELSE /\ pc' = [pc EXCEPT ![c] = "error"]
                /\ UNCHANGED <<batch, batch_pos>>
    /\ wire_in' = [wire_in EXCEPT ![c] = Tail(@)]
    /\ UNCHANGED <<keepalive, serving, wire_out, written, its_context, its_results,
                   contexts, results, executed>>
    /\ UNCHANGED not_session_vars

\* the state of connection c after a pass of the loop of execute
AfterSessionPass(c, step) ==
    /\ contexts' = [contexts EXCEPT ![its_context[c]] = step.context]
    /\ results' = [results EXCEPT ![its_results[c]] = step.collected]
    /\ executed' = [executed EXCEPT ![c] = Append(@, step.note)]
    /\ batch_pos' = [batch_pos EXCEPT ![c] =
            IF step.then = "next" THEN @ + 1
            ELSE IF step.then = "break" THEN Len(batch[c]) + 1
            ELSE @]
    /\ pc' = [pc EXCEPT ![c] = IF step.then = "escape" THEN "error" ELSE @]

\* one pass of the loop of instruction_list.execute(execution_context, results)
SessionExecuteItem(c) ==
    /\ pc[c] = "execute"
    /\ batch_pos[c] <= Len(batch[c])
    /\ AfterSessionPass(c, Instructions_execute_item(batch[c][batch_pos[c]],
                                                     contexts[its_context[c]],
                                                     results[its_results[c]]))
    /\ UNCHANGED <<keepalive, serving, wire_in, wire_out, written, received,
                   its_context, its_results, batch>>
    /\ UNCHANGED not_session_vars

\* execute returned: the collected results are packed and sent
SendResponse(c) ==
    /\ pc[c] = "execute"
    /\ batch_pos[c] > Len(batch[c])
    /\ wire_out' = [wire_out EXCEPT ![c] =
            Append(@, Response(Results_collection(results[its_results[c]])))]
    /\ pc' = [pc EXCEPT ![c] = "loop"]
    /\ UNCHANGED <<keepalive, serving, wire_in, written, received, its_context,
                   its_results, contexts, results, batch, batch_pos, executed>>
    /\ UNCHANGED not_session_vars

\* request.send raises (the client has gone): the exception ends the handler
SendFails(c) ==
    /\ \/ pc[c] = "ack"
       \/ pc[c] = "execute" /\ batch_pos[c] > Len(batch[c])
    /\ pc' = [pc EXCEPT ![c] = "error"]
    /\ UNCHANGED <<keepalive, serving, wire_in, wire_out, written, received,
                   its_context, its_results, contexts, results, batch, batch_pos,
                   executed>>
    /\ UNCHANGED not_session_vars

\* the client closed the connection without bye: recv returns '' for the
\* header, int('') raises ValueError, which ends the handler
ClientCloses(c) ==
    /\ pc[c] = "loop"
    /\ wire_in[c] = <<>>
    /\ pc' = [pc EXCEPT ![c] = "error"]
    /\ UNCHANGED <<keepalive, serving, wire_in, wire_out, written, received,
                   its_context, its_results, contexts, results, batch, batch_pos,
                   executed>>
    /\ UNCHANGED not_session_vars

\* respond_to returned: handle calls server.done, which shuts the server down
\* unless it was started with keepalive
HandleDone(c) ==
    /\ pc[c] = "left"
    /\ pc' = [pc EXCEPT ![c] = "done"]
    /\ serving' = done(serving)
    /\ UNCHANGED <<keepalive, wire_in, wire_out, written, received, its_context,
                   its_results, contexts, results, batch, batch_pos, executed>>
    /\ UNCHANGED not_session_vars

ConnectionStep(c) ==
    \/ Accept(c)
    \/ ClientWrite(c)
    \/ SendAck(c)
    \/ ReceiveMessage(c)
    \/ SessionExecuteItem(c)
    \/ SendResponse(c)
    \/ SendFails(c)
    \/ ClientCloses(c)
    \/ HandleDone(c)

\* one client connects
SessionNext == ConnectionStep("c1")

-----------------------------------------------------------------------------
(* One ExecutionContext of src/src/waferslim/execution.py, used by one       *)
(* thread: import paths, get_module, and the state of sys around it.  The    *)
(* module "fix" is found in the directory "/added/" and on the host's        *)
(* sys.path, "extra" only in "/added/", "nope" nowhere.  A module object is  *)
(* named by its name and the place its code was loaded from.                 *)

SysPathEntry == "<sys.path>"

\* ExecutionContext._SYSPATH, the list sys.path names when the class is made
_SYSPATH == <<SysPathEntry>>

\* ExecutionContext._REAL_IMPORT
_REAL_IMPORT == "real"

LookupModuleNames == {"fix", "extra", "nope"}
AddedDirs == {"/added/", "/other/"}

\* the entries of a search path under which a module of the name is found
FoundUnder(name) ==
    IF name = "fix" THEN {"/added/", SysPathEntry}
    ELSE IF name = "extra" THEN {"/added/"}
    ELSE {}

Module(name, from) == [name |-> name, from |-> from]
NoModule == Module("", "")

NoLoaded == [x \in {} |-> NoModule]

\* ExecutionContext.__init__ when sys.modules is loaded
Context_init(isolate, loaded) ==
    [_instances |-> EmptyMap, _libraries |-> <<>>, _symbols |-> EmptyMap,
     _path |-> <<>>, _type_prefixes |-> <<>>, _isolate_imports |-> isolate,
     _imported |-> {}, _modules |-> loaded]

Context_add_import_path(ctx, path) ==
    [ctx EXCEPT !._path = Append(@, path)]

\* the import machinery of the host: the first entry of sys.path under which
\* the module is found, from entry number i on; "" if there is none
RECURSIVE FirstFound(_, _, _)
FirstFound(name, path, i) ==
    IF i > Len(path) THEN ""
    ELSE IF path[i] \in FoundUnder(name) THEN path[i]
    ELSE FirstFound(name, path, i + 1)

ImportError(name) == Exc(FALSE, FALSE, TRUE, "No module named " \o name)

\* ExecutionContext._REAL_IMPORT(name): the module of sys.modules if it is
\* there, else the one found on sys.path, which is entered in sys.modules
real_import(sys, name) ==
    IF name \in DOMAIN sys.modules
    THEN [ok |-> TRUE, module |-> sys.modules[name], sys |-> sys]
    ELSE IF FirstFound(name, sys.path, 1) = ""
    THEN [ok |-> FALSE, module |-> NoModule, sys |-> sys]
    ELSE [ok |-> TRUE, module |-> Module(name, FirstFound(name, sys.path, 1)),
          sys |-> [sys EXCEPT !.modules =
                        Put(@, name, Module(name, FirstFound(name, sys.path, 1)))]]

\* ExecutionContext._import, r being what _REAL_IMPORT gives for the name
Context_imported(ctx, sys, name, r) ==
    IF name \in DOMAIN ctx._modules
    THEN [ok |-> TRUE, module |-> ctx._modules[name], ctx |-> ctx, sys |-> sys]
    ELSE IF ~r.ok
    THEN [ok |-> FALSE, module |-> r.module, ctx |-> ctx, sys |-> r.sys]
    ELSE [ok |-> TRUE, module |-> r.module,
          ctx |-> [ctx EXCEPT !._imported = @ \cup {name},
                              !._modules = Put(@, name, r.module)],
          sys |-> r.sys]

Context_import(ctx, sys, name) ==
    Context_imported(ctx, sys, name, real_import(sys, name))

\* ExecutionContext.cleanup_imports: what it leaves of sys.modules
Context_cleanup_imports(ctx, sys) ==
    [sys EXCEPT !.modules = Del(@, ctx._imported)]

\* get_module from the acquire to the call of _import_module: sys.path becomes
\* the list _path itself, which extend then lengthens
Context_get_module_try(ctx, sys) ==
    [ctx |-> [ctx EXCEPT !._path = @ \o _SYSPATH],
     sys |-> [sys EXCEPT !.path = ctx._path \o _SYSPATH,
                         !.import = IF ctx._isolate_imports THEN "context" ELSE @]]

\* sys.path and __import__ are put back after the import, unless it raised
Context_get_module_no_finally(m) ==
    IF ~m.ok THEN m
    ELSE [ok |-> m.ok, module |-> m.module,
          ctx |-> IF m.ctx._isolate_imports THEN [m.ctx EXCEPT !._imported = {}] ELSE m.ctx,
          sys |-> IF m.ctx._isolate_imports
                  THEN [Context_cleanup_imports(m.ctx, m.sys) EXCEPT
                             !.path = _SYSPATH, !.import = _REAL_IMPORT]
                  ELSE [m.sys EXCEPT !.path = _SYSPATH]]

\* the finally clause of get_module, m being what the try block left
Context_get_module_finally(m) ==
    [ok |-> m.ok, module |-> m.module,
     ctx |-> IF m.ctx._isolate_imports THEN [m.ctx EXCEPT !._imported = {}] ELSE m.ctx,
     sys |-> IF m.ctx._isolate_imports
             THEN [Context_cleanup_imports(m.ctx, m.sys) EXCEPT
                        !.path = _SYSPATH, !.import = _REAL_IMPORT]
             ELSE [m.sys EXCEPT !.path = _SYSPATH]]

\* get_module, b being what the statements before the import left
Context_get_module_from(b, name) ==
    Context_get_module_finally(Context_import(b.ctx, b.sys, name))

Context_get_module(ctx, sys, name) ==
    Context_get_module_from(Context_get_module_try(ctx, sys), name)

\* sys.modules when the context is made: nothing of the fixtures, or the
\* module "fix" the host loaded from its sys.path
HostLoaded == {NoLoaded, [x \in {"fix"} |-> Module("fix", SysPathEntry)]}

LookupInit ==
    /\ \E isolate \in BOOLEAN : \E loaded \in HostLoaded :
            /\ lookup_context = Context_init(isolate, loaded)
            /\ lookup_sys = [modules |-> loaded, path |-> _SYSPATH,
                             import |-> _REAL_IMPORT]
    /\ lookup_log = <<>>

LookupIdle ==
    /\ lookup_context = Context_init(FALSE, NoLoaded)
    /\ lookup_sys = [modules |-> NoLoaded, path |-> _SYSPATH, import |-> _REAL_IMPORT]
    /\ lookup_log = <<>>

Class(module, name) == [module |-> module, name |-> name]
NoClass == Class(NoModule, "")

\* the entry of the log for a call: what it was given (op, name), what it
\* returned (ok, with the module or the class) or raised (error), and the
\* context and sys before it
LookupEntry(op, name, ok, error, module, class) ==
    [op |-> op, name |-> name, ok |-> ok, error |-> error, module |-> module,
     class |-> class, context_before |-> lookup_context, sys_before |-> lookup_sys]

\* a call of add_import_path
LookupAddPath ==
    /\ Len(lookup_log) < MaxCalls
    /\ \E path \in AddedDirs :
            /\ lookup_context' = Context_add_import_path(lookup_context, path)
            /\ lookup_log' = Append(lookup_log,
                    LookupEntry("add_import_path", path, TRUE, "", NoModule, NoClass))
    /\ UNCHANGED lookup_sys
    /\ UNCHANGED not_lookup_vars

\* the state after a call of get_module that did what r says
AfterGetModule(name, r) ==
    /\ lookup_context' = r.ctx
    /\ lookup_sys' = r.sys
    /\ lookup_log' = Append(lookup_log,
            LookupEntry("get_module", name, r.ok, IF r.ok THEN "" ELSE "ImportError",
                        r.module, NoClass))

\* a call of get_module
LookupGetModule ==
    /\ Len(lookup_log) < MaxCalls
    /\ \E name \in LookupModuleNames :
            AfterGetModule(name, Context_get_module(lookup_context, lookup_sys, name))
    /\ UNCHANGED not_lookup_vars

PathsNext == LookupAddPath \/ LookupGetModule

\* the classes a module of the name defines
ClassesOf(name) ==
    IF name = "fix" THEN {"Fixture", "Only"}
    ELSE IF name = "extra" THEN {"Fixture"}
    ELSE {}

TypePrefixes == {"fix", "extra", "nope"}
TypeNames == {"Fixture", "Only", "Nope"}

Context_add_type_prefix(ctx, prefix) ==
    [ctx EXCEPT !._type_prefixes = Append(@, prefix)]

\* get_type of module_part.type_part once get_module has returned or raised
\* (m): getattr(module, type_part), an AttributeError becoming a TypeError
Context_getattr(m, type_part) ==
    IF ~m.ok
    THEN [ok |-> FALSE, error |-> "ImportError", class |-> NoClass,
          ctx |-> m.ctx, sys |-> m.sys]
    ELSE IF type_part \in ClassesOf(m.module.name)
    THEN [ok |-> TRUE, error |-> "", class |-> Class(m.module, type_part),
          ctx |-> m.ctx, sys |-> m.sys]
    ELSE [ok |-> FALSE, error |-> "TypeError", class |-> NoClass,
          ctx |-> m.ctx, sys |-> m.sys]

\* get_type of a name with a dot
Context_get_type_dotted(ctx, sys, module_part, type_part) ==
    Context_getattr(Context_get_module(ctx, sys, module_part), type_part)

\* get_type of a name without a dot: the loop over _type_prefixes from prefix
\* number i on, and the raise after it
RECURSIVE Context_get_type_prefixed(_, _, _, _)

\* try: return self.get_type(prefixed_name) except (TypeError, ImportError): pass
Context_return_or_pass(found, name, i) ==
    IF found.ok THEN found
    ELSE Context_get_type_prefixed(found.ctx, found.sys, name, i + 1)

Context_get_type_prefixed(ctx, sys, name, i) ==
    IF i > Len(ctx._type_prefixes)
    THEN [ok |-> FALSE, error |-> "TypeError", class |-> NoClass, ctx |-> ctx, sys |-> sys]
    ELSE Context_return_or_pass(
            Context_get_type_dotted(ctx, sys, ctx._type_prefixes[i], name), name, i)

\* get_type of src/src/waferslim/execution.py
Context_get_type(ctx, sys, name_parts) ==
    IF Len(name_parts) = 1
    THEN Context_get_type_prefixed(ctx, sys, name_parts[1], 1)
    ELSE Context_get_type_dotted(ctx, sys, name_parts[1], name_parts[2])

\* a call of add_type_prefix
LookupAddTypePrefix ==
    /\ Len(lookup_log) < MaxCalls
    /\ \E prefix \in TypePrefixes :
            /\ lookup_context' = Context_add_type_prefix(lookup_context, prefix)
            /\ lookup_log' = Append(lookup_log,
                    LookupEntry("add_type_prefix", prefix, TRUE, "", NoModule, NoClass))
    /\ UNCHANGED lookup_sys
    /\ UNCHANGED not_lookup_vars

\* the state after a call of get_type that did what r says
AfterGetType(name_parts, r) ==
    /\ lookup_context' = r.ctx
    /\ lookup_sys' = r.sys
    /\ lookup_log' = Append(lookup_log,
            LookupEntry("get_type", DotJoin(name_parts), r.ok, r.error, r.class.module,
                        r.class))

\* a call of get_type of src/src/waferslim/execution.py
LookupGetType ==
    /\ Len(lookup_log) < MaxCalls
    /\ \E name_parts \in {<<name>> : name \in TypeNames} \cup {<<"fix", "Only">>} :
            AfterGetType(name_parts, Context_get_type(lookup_context, lookup_sys, name_parts))
    /\ UNCHANGED not_lookup_vars

\* the ExecutionContext of src/execution.py after
\* import_path('waferslim.examples.method_names')
ClassesContext == import_path(NewContext, "waferslim.examples.method_names")

\* a call of get_type of src/execution.py, on a context of its own
LookupGetTypeOfClasses ==
    /\ Len(lookup_log) < MaxCalls
    /\ \E name \in {"ClassWithPythonicMethodNames", "Nope"} :
            lookup_log' = Append(lookup_log,
                LookupEntry("classes.get", name,
                            ExecutionContext_get_type(ClassesContext, name).ok, "", NoModule,
                            Class(NoModule, ExecutionContext_get_type(ClassesContext, name).class)))
    /\ UNCHANGED <<lookup_context, lookup_sys>>
    /\ UNCHANGED not_lookup_vars

PrefixesNext ==
    LookupAddPath \/ LookupAddTypePrefix \/ LookupGetType \/ LookupGetTypeOfClasses

\* instance names Make stores under; the characters matter to _is_library
InstanceNames ==
    {<<"a">>, <<"l", "i", "b", "r", "a", "r", "y", "1">>,
     <<"L", "i", "b", "r", "a", "r", "y", "2">>}

\* the instances stored, of specs/execution_spec.py: DeathKnocksAtTheDoor(),
\* GrimReaperKnocks(), which overrides its method, and the string 'mint'
StoredObjects == {"mr_death", "reaper", "mint"}

\* hasattr(instance, name)
hasattr(instance, name) ==
    instance \in {"mr_death", "reaper"} /\ name = "do_come_in_mr_death"

\* getattr(instance, name): the method bound to the instance
BoundMethod(instance, name) == [self |-> instance, name |-> name]
NoMethod == BoundMethod("", "")

LibraryMethodNames == {"do_come_in_mr_death", "nope"}

\* name.lower()
str_lower(name) == [i \in 1..Len(name) |-> lower(name[i])]

\* str.startswith
startswith(text, prefix) ==
    Len(text) >= Len(prefix) /\ SubSeq(text, 1, Len(prefix)) = prefix

Context_is_library(name) ==
    startswith(str_lower(name), <<"l", "i", "b", "r", "a", "r", "y">>)

\* dict[name] = value of a dict kept as the sequence of its pairs: the value
\* of a key it holds is replaced where it is, a new key comes last
RECURSIVE DictSet(_, _, _)
DictSet(pairs, name, value) ==
    IF pairs = <<>> THEN <<[name |-> name, value |-> value]>>
    ELSE IF Head(pairs).name = name
    THEN <<[name |-> name, value |-> value]>> \o Tail(pairs)
    ELSE <<Head(pairs)>> \o DictSet(Tail(pairs), name, value)

Context_store_library_instance(ctx, name, value) ==
    [ctx EXCEPT !._libraries = DictSet(@, name, value)]

\* a name that holds an instance keeps it
Context_store_instance_keeps_first(ctx, name, value) ==
    IF Context_is_library(name)
    THEN Context_store_library_instance(ctx, name, value)
    ELSE IF Join(name, "") \in DOMAIN ctx._instances THEN ctx
    ELSE [ctx EXCEPT !._instances = Put(@, Join(name, ""), PyObject(value))]

\* the instances are kept as a map of the joined name
Context_store_instance(ctx, name, value) ==
    IF Context_is_library(name)
    THEN Context_store_library_instance(ctx, name, value)
    ELSE [ctx EXCEPT !._instances = Put(@, Join(name, ""), PyObject(value))]

\* self._instances[name]
Context_get_instance(ctx, name) ==
    IF Join(name, "") \in DOMAIN ctx._instances
    THEN [ok |-> TRUE, error |-> "", value |-> ctx._instances[Join(name, "")].ty]
    ELSE [ok |-> FALSE, error |-> "KeyError", value |-> ""]

\* get_library_method: the loop over self._libraries.values(), which come in
\* the order values gives (order[1], order[2], ...), from number i on
RECURSIVE Context_get_library_method(_, _, _, _)
Context_get_library_method(ctx, order, name, i) ==
    IF i > Len(ctx._libraries)
    THEN [ok |-> FALSE, error |-> "AttributeError", method |-> NoMethod]
    ELSE IF hasattr(ctx._libraries[order[i]].value, name)
    THEN [ok |-> TRUE, error |-> "",
          method |-> BoundMethod(ctx._libraries[order[i]].value, name)]
    ELSE Context_get_library_method(ctx, order, name, i + 1)

\* the entry of the log for a call on the instances or the libraries
StoreEntry(op, name, ok, error, value, method) ==
    [op |-> op, name |-> name, ok |-> ok, error |-> error, value |-> value,
     method |-> method, context_before |-> lookup_context]

\* a call of store_instance
LookupStoreInstance ==
    /\ Len(lookup_log) < MaxCalls
    /\ \E name \in InstanceNames, value \in StoredObjects :
            /\ lookup_context' = Context_store_instance(lookup_context, name, value)
            /\ lookup_log' = Append(lookup_log,
                    StoreEntry("store_instance", name, TRUE, "", value, NoMethod))
    /\ UNCHANGED lookup_sys
    /\ UNCHANGED not_lookup_vars

\* a call of get_instance
LookupGetInstance ==
    /\ Len(lookup_log) < MaxCalls
    /\ \E name \in InstanceNames :
            lookup_log' = Append(lookup_log,
                StoreEntry("get_instance", name,
                           Context_get_instance(lookup_context, name).ok,
                           Context_get_instance(lookup_context, name).error,
                           Context_get_instance(lookup_context, name).value, NoMethod))
    /\ UNCHANGED <<lookup_context, lookup_sys>>
    /\ UNCHANGED not_lookup_vars

\* the orders in which a dict of n keys may give its values: that of the
\* hashes of the keys, which is any
DictOrders(n) == Permutations(1..n)

\* a call of get_library_method
LookupGetLibraryMethod ==
    /\ Len(lookup_log) < MaxCalls
    /\ \E name \in LibraryMethodNames :
       \E order \in DictOrders(Len(lookup_context._libraries)) :
            lookup_log' = Append(lookup_log,
                StoreEntry("get_library_method", <<name>>,
                           Context_get_library_method(lookup_context, order, name, 1).ok,
                           Context_get_library_method(lookup_context, order, name, 1).error,
                           "",
                           Context_get_library_method(lookup_context, order, name, 1).method))
    /\ UNCHANGED <<lookup_context, lookup_sys>>
    /\ UNCHANGED not_lookup_vars

StoreNext == LookupStoreInstance \/ LookupGetInstance \/ LookupGetLibraryMethod

-----------------------------------------------------------------------------
(* The message loop of the responder on a socket that delivers the client's  *)
(* bytes in segments.  A byte is kept with the frame it belongs to and its   *)
(* offset in it: 1..7 the header, from 8 on the body.                        *)

\* the bodies the client frames: bye, and the packed list without instructions
StreamBodies == {<<"b", "y", "e">>, pack(<<>>)}

\* the bytes of frame number m: '%06d:' % len(body), then the body
Frame(m, body) ==
    [i \in 1..(Len(body) + _NUMERIC_LENGTH + 1) |->
        [ch |-> _ITEM_ENCODING(Len(body), body)[i], frame |-> m, offset |-> i]]

RECURSIVE Frames(_, _)
Frames(bodies, m) ==
    IF m > Len(bodies) THEN <<>> ELSE Frame(m, bodies[m]) \o Frames(bodies, m + 1)

\* the characters of bytes
Text(bytes) == [i \in 1..Len(bytes) |-> bytes[i].ch]

StreamInit ==
    /\ \E n \in 1..MaxMessages : \E bodies \in [1..n -> StreamBodies] :
            stream_wire = Frames(bodies, 1)
    /\ stream_buffer = <<>>
    /\ stream_pc = "header"
    /\ stream_length = 0
    /\ stream_log = <<>>

StreamIdle ==
    /\ stream_wire = <<>>
    /\ stream_buffer = <<>>
    /\ stream_pc = "left"
    /\ stream_length = 0
    /\ stream_log = <<>>

\* a segment of the bytes in flight reaches the receive buffer of the socket
StreamDeliver ==
    /\ stream_wire # <<>>
    /\ \E n \in 1..Len(stream_wire) :
            /\ stream_buffer' = stream_buffer \o SubSeq(stream_wire, 1, n)
            /\ stream_wire' = SubSeq(stream_wire, n + 1, Len(stream_wire))
    /\ UNCHANGED <<stream_pc, stream_length, stream_log>>
    /\ UNCHANGED not_stream_vars

Min(a, b) == IF a < b THEN a ELSE b

\* request.recv(bufsize) returns as soon as the buffer holds a byte, with the
\* bytes it holds up to bufsize, and with none once the client has closed
recv_ready(bufsize) == bufsize = 0 \/ stream_buffer # <<>> \/ stream_wire = <<>>
recv(bufsize) == SubSeq(stream_buffer, 1, Min(bufsize, Len(stream_buffer)))

\* the state after a recv that returned data
AfterRecv(op, bufsize, data, length, then) ==
    /\ stream_buffer' = SubSeq(stream_buffer, Len(data) + 1, Len(stream_buffer))
    /\ stream_length' = length
    /\ stream_pc' = then
    /\ stream_log' = Append(stream_log,
            [op |-> op, bufsize |-> bufsize, data |-> data, then |-> then])

\* _get_message_length once recv has returned data: int(data[0:6])
get_message_length(data) ==
    IF IsDigits(Slice(Text(data), 0, _NUMERIC_LENGTH))
    THEN AfterRecv("header", _NUMERIC_LENGTH + 1, data,
                   int(Slice(Text(data), 0, _NUMERIC_LENGTH)), "body")
    ELSE AfterRecv("header", _NUMERIC_LENGTH + 1, data, 0, "ValueError")

\* _message_loop: _get_message_length
StreamGetMessageLength ==
    /\ stream_pc = "header"
    /\ recv_ready(_NUMERIC_LENGTH + 1)
    /\ get_message_length(recv(_NUMERIC_LENGTH + 1))
    /\ UNCHANGED stream_wire
    /\ UNCHANGED not_stream_vars

\* the rest of a pass of _message_loop once recv(message_length) has returned
\* data: bye leaves the loop, what unpack decodes is executed and answered,
\* and what it raises ends the handler
message_loop_body(data) ==
    AfterRecv("body", stream_length, data, stream_length,
              IF Text(data) = <<"b", "y", "e">> THEN "left"
              ELSE IF unpack(Text(data)).ok THEN "header"
              ELSE unpack(Text(data)).error)

\* _message_loop: recv(message_length), decode, execute, send
StreamMessage ==
    /\ stream_pc = "body"
    /\ recv_ready(stream_length)
    /\ message_loop_body(recv(stream_length))
    /\ UNCHANGED stream_wire
    /\ UNCHANGED not_stream_vars

StreamNext == StreamDeliver \/ StreamGetMessageLength \/ StreamMessage

-----------------------------------------------------------------------------

\* no run of the codec, of the symbols, of the method names, of the lookups or
\* of the stream
PureIdle == CodecIdle /\ SymbolsIdle /\ MethodsIdle /\ LookupIdle /\ StreamIdle

ServerInit == SessionInit /\ EngineIdle /\ ModulesIdle /\ ConvertersIdle /\ PureIdle

SpecSession == ServerInit /\ [][SessionNext]_vars

\* every client connects; the handler threads interleave
ServerNext == \E c \in Connections : ConnectionStep(c)

SpecServer == ServerInit /\ [][ServerNext]_vars

\* the client writes a message without instructions: bye, an empty packed
\* list, or bytes that are neither
ClientWriteBare(c) ==
    /\ pc[c] \in {"ack", "loop", "execute"}
    /\ written[c] < MaxMessages
    /\ Len(wire_in[c]) = 0
    /\ \E body \in {RawBody(_DISCONNECT), RawBody("hello"), ListBody(<<>>)} :
            wire_in' = [wire_in EXCEPT ![c] = Append(@, body)]
    /\ written' = [written EXCEPT ![c] = @ + 1]
    /\ UNCHANGED <<keepalive, serving, pc, wire_out, received, its_context,
                   its_results, contexts, results, batch, batch_pos, executed>>
    /\ UNCHANGED not_session_vars

\* the steps of the handler thread of connection c that the scheduler takes
HandlerStep(c) ==
    \/ SendAck(c)
    \/ ReceiveMessage(c)
    \/ SessionExecuteItem(c)
    \/ SendResponse(c)
    \/ HandleDone(c)

BareConnectionStep(c) ==
    \/ Accept(c)
    \/ ClientWriteBare(c)
    \/ SendAck(c)
    \/ ReceiveMessage(c)
    \/ SendResponse(c)
    \/ SendFails(c)
    \/ ClientCloses(c)
    \/ HandleDone(c)

\* every client connects and none sends an instruction
AcceptNext == \E c \in Connections : BareConnectionStep(c)

AcceptInit == SessionInit /\ EngineIdle /\ ModulesIdle /\ ConvertersIdle /\ PureIdle

SpecAccept == AcceptInit /\ [][AcceptNext]_vars

\* ... and every handler thread that can take a step takes it in the end
SpecAcceptFair == SpecAccept /\ \A c \in Connections : WF_vars(HandlerStep(c))

-----------------------------------------------------------------------------
(* SpecEngine: Instructions(unpacked_list).execute(context, results) *)

EngineInit ==
    /\ \E n \in 0..MaxBatch : \E bodies \in [1..n -> EngineItems] :
            unpacked_list = WithIds(bodies)
    /\ pos = 1
    /\ collected = <<>>
    /\ context = NewContext
    /\ status = "running"
    /\ trace = <<>>

\* the state after a pass of the loop
AfterPass(step) ==
    /\ context' = step.context
    /\ collected' = step.collected
    /\ trace' = Append(trace, step.note)
    /\ pos' = IF step.then = "next" THEN pos + 1 ELSE pos
    /\ status' = IF step.then = "next" THEN "running"
                  ELSE IF step.then = "break" THEN "returned"
                  ELSE "raised"

\* the body of the for loop, for the item at pos
ExecuteItem ==
    /\ status = "running"
    /\ pos <= Len(unpacked_list)
    /\ AfterPass(Instructions_execute_item(unpacked_list[pos], context, collected))
    /\ UNCHANGED unpacked_list
    /\ UNCHANGED not_engine_vars

\* the for loop is exhausted: execute returns
ExecuteReturn ==
    /\ status = "running"
    /\ pos > Len(unpacked_list)
    /\ status' = "returned"
    /\ UNCHANGED <<unpacked_list, pos, collected, context, trace>>
    /\ UNCHANGED not_engine_vars

EngineNext == ExecuteItem \/ ExecuteReturn

BatchInit == EngineInit /\ SessionIdle /\ ModulesIdle /\ ConvertersIdle /\ PureIdle

SpecEngine == BatchInit /\ [][EngineNext]_vars

ImportsInit == ModulesInit /\ EngineIdle /\ SessionIdle /\ ConvertersIdle /\ PureIdle

SpecModules == ImportsInit /\ [][ModulesNext]_vars

\* ... and every thread that can take a step takes it in the end
SpecModulesFair == SpecModules /\ \A x \in Contexts : WF_vars(ContextStep(x))

RegistryInit == ConvertersInit /\ EngineIdle /\ SessionIdle /\ ModulesIdle /\ PureIdle

SpecConverters == RegistryInit /\ [][ConvertersNext]_vars

\* the engine, the sessions, the module imports and the converters are idle
ProgramIdle == EngineIdle /\ SessionIdle /\ ModulesIdle /\ ConvertersIdle

\* everything but the codec, the symbols and the method names is idle
RestIdle == ProgramIdle /\ LookupIdle /\ StreamIdle

CodecRunInit == CodecInit /\ SymbolsIdle /\ MethodsIdle /\ RestIdle

SpecCodec == CodecRunInit /\ [][CodecNext]_vars

SymbolRunInit == SymbolsInit /\ CodecIdle /\ MethodsIdle /\ RestIdle

SpecSymbols == SymbolRunInit /\ [][SymbolsNext]_vars

SpecResults == SymbolRunInit /\ [][ResultsNext]_vars

MethodRunInit == MethodsInit /\ CodecIdle /\ SymbolsIdle /\ RestIdle

SpecMethods == MethodRunInit /\ [][MethodsNext]_vars

ValuesRunInit == ValuesInit /\ SymbolsIdle /\ MethodsIdle /\ RestIdle

SpecPackValues == ValuesRunInit /\ [][CodecNext]_vars

ReceivedRunInit == ReceivedInit /\ SymbolsIdle /\ MethodsIdle /\ RestIdle

SpecUnpack == ReceivedRunInit /\ [][UnpackNext]_vars

MultibyteRunInit == MultibyteInit /\ SymbolsIdle /\ MethodsIdle /\ RestIdle

SpecMultibyte == MultibyteRunInit /\ [][MultibyteNext]_vars

LookupRunInit ==
    LookupInit /\ CodecIdle /\ SymbolsIdle /\ MethodsIdle /\ ProgramIdle /\ StreamIdle

SpecPaths == LookupRunInit /\ [][PathsNext]_vars

SpecPrefixes == LookupRunInit /\ [][PrefixesNext]_vars

\* a context just made, and everything else idle
StoreRunInit ==
    LookupIdle /\ CodecIdle /\ SymbolsIdle /\ MethodsIdle /\ ProgramIdle /\ StreamIdle

StreamRunInit ==
    StreamInit /\ CodecIdle /\ SymbolsIdle /\ MethodsIdle /\ ProgramIdle /\ LookupIdle

SpecStream == StreamRunInit /\ [][StreamNext]_vars

SpecStore == StoreRunInit /\ [][StoreNext]_vars

SpecAliases == MethodRunInit /\ [][AliasesNext]_vars

SpecInstances == MethodRunInit /\ [][InstancesNext]_vars

-----------------------------------------------------------------------------
(* Claims about Instructions.execute (SpecEngine) *)

Executed == 1..Len(trace)

\* the outcome is an abort row: it starts with '__EXCEPTION__:ABORT_SLIM_TEST:'
\* (every outcome of the model is OK, the void marker, a returned string or a
\* failure text built from the message of an exception of the trace)
StartsWithStopTest(outcome) ==
    \E i \in Executed : outcome = FailureText(_STOP_TEST, trace[i].exc.msg)

\* the instruction appended exactly one row, the given one
AppendedOne(entry, outcome) ==
    /\ entry.rows_after = entry.rows_before + 1
    /\ Len(collected) >= entry.rows_after
    /\ collected[entry.rows_after] = Row(entry.id, outcome)

\* C1: whenever the execution of an instruction raises an exception whose type
\* name does not contain 'stoptest', whatever its type or arguments, exactly one
\* failure row [id, '__EXCEPTION__: message:<<cause>>'] is appended, the
\* exception does not leave execute, and the loop goes on to the next instruction.
C1_EveryExceptionBecomesARow ==
    \A i \in Executed :
        (trace[i].raised /\ ~trace[i].exc.stoptest) =>
            /\ AppendedOne(trace[i], FailureText(_EXCEPTION, trace[i].exc.msg))
            /\ trace[i].then = "next"

\* the batch [make ok; call that raises StopTestException; call normal]
AbortScenario(message) ==
    WithIds(<<MakeItem("a", <<"fix", "Fixture">>, Returns(PyNone)),
              CallItem("a", "m", Raises(Exc(TRUE, FALSE, message # "", message))),
              CallItem("a", "m", Returns(PyStr("v")))>>)

\* C2: whenever the execution of an instruction raises an exception whose type
\* name contains 'stoptest', one row is appended for it, no later instruction
\* of the batch is executed, and execute returns with the rows appended so far;
\* the batch [make ok; call that raises StopTestException; call normal] ends
\* with an OK row and an ABORT row.
C2_StopTestEndsTheBatch ==
    /\ \A i \in Executed :
          (trace[i].raised /\ trace[i].exc.stoptest) =>
              /\ trace[i].rows_after = trace[i].rows_before + 1
              /\ Len(collected) = trace[i].rows_after
              /\ i = Len(trace)
              /\ status = "returned"
    /\ \A message \in {"boom", ""} :
          (unpacked_list = AbortScenario(message) /\ status # "running") =>
              /\ Len(collected) = 2
              /\ collected[1] = Row(1, _OK)
              /\ StartsWithStopTest(collected[2].outcome)

\* the trace entries of the instruction that appended row k
ProducedBy(k) == {i \in Executed : trace[i].rows_before < k /\ k <= trace[i].rows_after}

\* C3: a row starts with '__EXCEPTION__:ABORT_SLIM_TEST:' if and only if it was
\* produced for an exception, raised by a fixture method or constructor, whose
\* type name contains 'stoptest'; every other failure row has the form
\* '__EXCEPTION__: message:<<cause>>' and does not end the batch.
C3_AbortIffStopTest ==
    \A k \in 1..Len(collected) : \A i \in ProducedBy(k) :
        LET for_stoptest == trace[i].invoked /\ trace[i].thrown.stoptest IN
        /\ StartsWithStopTest(collected[k].outcome) <=> for_stoptest
        /\ (trace[i].invoked /\ trace[i].thrown # NoExc /\ ~for_stoptest) =>
               /\ \E cause \in {trace[i].exc.msg,
                                 _NO_CONSTRUCTION \o " fix.Fixture " \o trace[i].thrown.msg} :
                      collected[k].outcome = FailureText(_EXCEPTION, cause)
               /\ trace[i].then = "next"

\* C4: once execute has run a batch of n instructions without an abort, exactly
\* n rows have been appended, the k-th row carries the id of the k-th
\* instruction, and each instruction's row was appended before the next
\* instruction started.
C4_OneRowPerInstructionInOrder ==
    /\ \A i \in Executed : trace[i].rows_before = i - 1
    /\ (status # "running" /\ \A i \in Executed : trace[i].then # "break") =>
          /\ Len(collected) = Len(unpacked_list)
          /\ \A k \in 1..Len(collected) : collected[k].id = unpacked_list[k].id

-----------------------------------------------------------------------------
(* Claims about the responder and the server (SpecSession, SpecServer) *)

\* the framed responses connection c got, in order
Responses(c) == SelectSeq(wire_out[c], LAMBDA sent : sent.framed)

\* the ids of the rows that the instructions of message m of connection c appended
RowIdsOf(c, m) ==
    {executed[c][i].id : i \in {j \in 1..Len(executed[c]) :
                                    /\ executed[c][j].id[2] = m
                                    /\ executed[c][j].rows_after > executed[c][j].rows_before}}

IdsIn(rows) == {rows[i].id : i \in 1..Len(rows)}

\* C5: within one session, the response to the k-th non-bye payload contains
\* exactly the rows of the instructions of that payload, each once, and no row
\* produced by an earlier payload of the session.
C5_ResponseHoldsRowsOfItsPayload ==
    \A c \in Connections : \A k \in 1..Len(Responses(c)) :
        /\ IdsIn(Responses(c)[k].rows) = RowIdsOf(c, k)
        /\ Len(Responses(c)[k].rows) = Cardinality(RowIdsOf(c, k))

\* what the instructions of connection c stored
StoredBy(c, kind) ==
    {i \in 1..Len(executed[c]) : executed[c][i].kind = kind /\ ~executed[c][i].raised}

InstancesOf(c) == {executed[c][i].instance : i \in StoredBy(c, "make")}
SymbolsOf(c) == {executed[c][i].symbol : i \in StoredBy(c, "callAndAssign")}

\* C6: two connections of one server never share an execution context or a
\* results collector: get_instance and get_symbol of a session find only what
\* instructions of that session stored, and the responses of a session hold
\* only rows produced by that session, under every interleaving.
C6_SessionsShareNothing ==
    \A c \in Connections : pc[c] # "none" =>
        /\ \A d \in Connections \ {c} : pc[d] # "none" =>
               /\ its_context[c] # its_context[d]
               /\ its_results[c] # its_results[d]
        /\ DOMAIN contexts[its_context[c]].instances \subseteq InstancesOf(c)
        /\ DOMAIN contexts[its_context[c]].symbols \subseteq SymbolsOf(c)
        /\ \A k \in 1..Len(Responses(c)) :
               \A id \in IdsIn(Responses(c)[k].rows) : id[1] = c

\* C9: for every connection the first thing sent is the version banner
\* 'Slim -- V0.0\n', unframed, sent once, before anything is read from the
\* client and before any framed response.
C9_BannerFirstAndOnce ==
    \A c \in Connections :
        /\ \A k \in 1..Len(received[c]) : received[c][k].sent_before >= 1
        /\ Len(wire_out[c]) >= 1 =>
               /\ wire_out[c][1] = [framed |-> FALSE, text |-> "Slim -- V0.0\n", rows |-> <<>>]
               /\ \A k \in 2..Len(wire_out[c]) :
                      wire_out[c][k].framed /\ wire_out[c][k].text # "Slim -- V0.0\n"

\* a session got the banner, sent a batch and got its response
C9_Witness ==
    \E c \in Connections :
        /\ Len(received[c]) >= 1
        /\ Len(wire_out[c]) >= 2
        /\ wire_out[c][1].text = "Slim -- V0.0\n"
        /\ Len(wire_out[c][2].rows) >= 1

\* C10: when the body of a received message is exactly 'bye', no response is
\* sent for it, no instruction is executed, nothing further is read and the
\* message loop of the session has ended.
C10_ByeEndsTheSession ==
    \A c \in Connections : \A k \in 1..Len(received[c]) :
        received[c][k].data = [is_list |-> FALSE, raw |-> "bye", list |-> <<>>] =>
            /\ k = Len(received[c])
            /\ Len(wire_out[c]) = received[c][k].sent_before
            /\ Len(executed[c]) = received[c][k].executed_before
            /\ pc[c] \in {"left", "done"}

\* a session ran a batch, then read bye and its handler returned
C10_Witness ==
    \E c \in Connections :
        /\ Len(received[c]) = 2
        /\ received[c][2].data.raw = "bye"
        /\ Len(executed[c]) >= 1
        /\ Len(wire_out[c]) = 2
        /\ pc[c] = "done"

-----------------------------------------------------------------------------
(* Claims about module state and converters (SpecModules, SpecConverters) *)

\* C7: two contexts that each load module_with_state, whose STATE is an empty
\* list, and each call alter_state once, each get a list of length 1 from
\* get_state: what one appends is never visible through the other.
C7_EachContextSeesItsOwnState ==
    \A x \in Contexts : mpc[x] = "done" => observed[x] = 1

\* C8: register_converter in one thread never changes what converter_for
\* returns in another thread: a lookup returns what the looking thread itself
\* registered last for the kind, and otherwise the built-in default (the
\* true/false converter for bool), whatever other threads registered before.
C8_ConvertersAreThreadLocal ==
    \A i \in 1..Len(lookups) :
        lookups[i].op = "lookup" =>
            lookups[i].result =
                IF lookups[i].own # "none" THEN lookups[i].own
                ELSE IF lookups[i].kind = "bool" THEN "TrueFalseConverter"
                ELSE "Converter"

\* one thread registered yes/no for bool and gets it, and afterwards the first
\* lookup of another thread got true/false
C8_Witness ==
    \E i, j, k \in 1..Len(lookups) :
        /\ i < j /\ j < k
        /\ lookups[i].op = "register" /\ lookups[i].kind = "bool"
        /\ lookups[i].result = "YesNoConverter"
        /\ lookups[j].op = "lookup" /\ lookups[j].thread = lookups[i].thread
        /\ lookups[j].kind = "bool" /\ lookups[j].result = "YesNoConverter"
        /\ lookups[k].op = "lookup" /\ lookups[k].thread # lookups[i].thread
        /\ lookups[k].kind = "bool" /\ lookups[k].result = "TrueFalseConverter"

-----------------------------------------------------------------------------
(* Claims about the framing of responses and about the codec *)

\* C11: for every payload that is not bye the responder sends exactly one
\* response before it reads the next header, and the response is a header of
\* six decimal digits, padded with zeros, the separator, then the packed
\* results; the header is the byte length of the packed results.
C11_OneFramedResponsePerPayload ==
    /\ \A c \in Connections :
        /\ \A k \in 1..Len(received[c]) : received[c][k].sent_before = k
        /\ \A i \in 2..Len(wire_out[c]) : wire_out[c][i].framed
    /\ cpc = "formatted" =>
        /\ Len(formatted.header) = 6
        /\ IsDigits(formatted.header)
        /\ int(formatted.header) = formatted.msg_bytes
        /\ formatted.separator = ":"

\* C15: unpack(pack(xs)) = xs for every nested list of strings xs, the empty
\* string, 'null' and strings in brackets among them.
C15_UnpackReversesPack ==
    cpc = "unpacked" => unpacked = Unpacked(item_list)

-----------------------------------------------------------------------------
(* Claims about the sessions that end and the accept loop *)

\* the messages read on connection c that the responder cannot serve: they
\* are no bye and no packed list
FailingMessages(c) ==
    {k \in 1..Len(received[c]) :
        ~received[c][k].data.is_list /\ received[c][k].data.raw # _DISCONNECT}

\* C12: a short read, an undecodable payload or an I/O error ends its
\* session without a response for the failing message and does not stop the
\* server; the other sessions are unaffected, and with keepalive new
\* connections are still accepted afterwards.
C12_ErrorEndsOnlyItsSession ==
    /\ [](\A c \in Connections :
            /\ \A k \in FailingMessages(c) :
                    /\ pc[c] = "error"
                    /\ k = Len(received[c])
                    /\ Len(wire_out[c]) = received[c][k].sent_before
            /\ pc[c] = "error" /\ keepalive =>
                    /\ serving
                    /\ \A d \in Connections : pc[d] = "none" => ENABLED Accept(d))
    /\ [][\A c \in Connections :
            /\ pc[c] # "error" /\ pc'[c] = "error" =>
                    /\ wire_out'[c] = wire_out[c]
                    /\ serving' = serving
                    /\ contexts' = contexts /\ results' = results
                    /\ \A d \in Connections \ {c} :
                            /\ pc'[d] = pc[d]
                            /\ wire_in'[d] = wire_in[d]
                            /\ wire_out'[d] = wire_out[d]
            /\ pc[c] = "error" => pc'[c] = "error" /\ wire_out'[c] = wire_out[c]]_vars

\* a session died of a payload it could not decode, and with keepalive the
\* other client can still connect
C12_Witness ==
    /\ keepalive
    /\ pc["c1"] = "error"
    /\ FailingMessages("c1") # {}
    /\ pc["c2"] = "none"
    /\ ENABLED Accept("c2")

\* C13: without keepalive, once the first session has ended, by bye or by an
\* error that ends its handler, the server eventually stops accepting
\* connections.
C13_FirstSessionEndStopsServer ==
    (~keepalive /\ \E c \in Connections : pc[c] \in {"left", "done", "error"})
        ~> ~serving

\* C14: the server shuts down only from done and only without keepalive:
\* with keepalive no completions stop the accept loop, without it the
\* server does not shut down before a session has completed.
C14_ShutdownOnlyFromDone ==
    /\ [](keepalive => serving)
    /\ [](~serving => ~keepalive /\ \E c \in Connections : pc[c] = "done")
    /\ [][serving /\ ~serving' =>
            ~keepalive /\ \E c \in Connections : pc[c] = "left" /\ pc'[c] = "done"]_vars

\* with keepalive every session has completed and the server still accepts
C14_Witness ==
    /\ keepalive
    /\ \A c \in Connections : pc[c] = "done"
    /\ serving

-----------------------------------------------------------------------------
(* Claims about symbols and arguments *)

\* the argument that has every $identifier of the parameter replaced by its
\* symbol of the table
RECURSIVE EverySymbolReplaced(_, _)
EverySymbolReplaced(table, param) ==
    IF param.is_list
    THEN TupleArg([k \in 1..Len(param.items) |-> EverySymbolReplaced(table, param.items[k])])
    ELSE StrArg(_SYMBOL_PATTERN_sub([symbols |-> table], param.chars, 1, Len(param.chars)))

\* the symbols and the parameters of the example
ExampleContext ==
    store_symbol(store_symbol(store_symbol(NewContext, "A", PyStr("X")),
                              "b_", PyStr("Y")),
                 "id", PyStr("20"))
ExampleParams ==
    <<PyString(<<"$", "A">>), PyString(<<"$", "b", "_">>), PyString(<<"C", "$">>),
      PyString(<<"i", "d", "=", "$", "i", "d">>)>>

\* C16: to_args(params, k) is a tuple with one element per element of
\* params[k:], a list becoming a tuple, and in a string every $identifier is
\* replaced by get_symbol(identifier) wherever it stands, the rest left as it
\* is; with A=X, b_=Y, id=20 the parameters $A, $b_, C$, id=$id give
\* X, Y, C$, id=20.
C16_EverySymbolIsReplaced ==
    /\ to_args(ExampleContext, ExampleParams, 0)
            = TupleArg(<<StrArg("X"), StrArg("Y"), StrArg("C$"), StrArg("id=20")>>)
    /\ \A k \in 1..Len(symbol_log) :
            symbol_log[k].kind = "call" =>
                symbol_log[k].args =
                    EverySymbolReplaced(symbol_log[k].table_before,
                                        PyList(symbol_log[k].params))

C18_SymbolHoldsTheRowString ==
    \A k \in 1..Len(symbol_log) :
        /\ symbol_log[k].kind = "callAndAssign" =>
                /\ symbol_log[k].symbol \in DOMAIN symbol_log[k].table_after
                /\ symbol_log[k].table_after[symbol_log[k].symbol]
                        = to_string(symbol_log[k].value)
                /\ symbol_log[k].table_after[symbol_log[k].symbol]
                        = symbol_log[k].outcome
                /\ \A n \in DOMAIN symbol_log[k].table_before :
                        n # symbol_log[k].symbol =>
                            symbol_log[k].table_after[n] = symbol_log[k].table_before[n]
        /\ symbol_log[k].kind # "callAndAssign" =>
                symbol_log[k].table_after = symbol_log[k].table_before
        /\ k > 1 => symbol_log[k].table_before = symbol_log[k - 1].table_after
        /\ symbol_log[k].kind = "call"
           /\ symbol_log[k].params = <<PyString(<<"$", "s">>)>>
           /\ "s" \in DOMAIN symbol_log[k].table_before =>
                symbol_log[k].args = TupleArg(<<StrArg(symbol_log[k].table_before["s"])>>)

-----------------------------------------------------------------------------
(* Claims about method names *)

\* C19: for a class that defines a_method, a call that names a_method,
\* aMethod or AMethod invokes the method and reports what it returns.
C19_EverySpellingIsCallable ==
    \A k \in 1..Len(method_log) :
        /\ method_log[k].op = "call"
        /\ method_log[k].class = "ClassWithPythonicMethodNames"
        /\ method_log[k].method \in {"a_method", "aMethod", "AMethod"}
        => method_log[k].invoked /\ method_log[k].outcome = "hello"

\* C20: for a class that defines only aMethod, a call of aMethod succeeds,
\* calls of a_method and AMethod invoke nothing and give NO_METHOD_IN_CLASS
\* with the method and the class, and target_for returns None, without
\* raising, for a name the class has no mapping for.
C20_OnlyTheCamelSpellingIsCallable ==
    \A k \in 1..Len(method_log) :
        /\ method_log[k].op = "call"
           /\ method_log[k].class = "ClassWithCamelCaseMethodNames"
           /\ method_log[k].method = "aMethod"
           => method_log[k].invoked /\ method_log[k].outcome = "hello"
        /\ method_log[k].op = "call"
           /\ method_log[k].class = "ClassWithCamelCaseMethodNames"
           /\ method_log[k].method \in {"a_method", "AMethod"}
           => /\ ~method_log[k].invoked
              /\ method_log[k].outcome =
                    FailureText(_EXCEPTION, _NO_METHOD \o " " \o method_log[k].method
                                            \o " " \o method_log[k].class)
        /\ method_log[k].op = "target_for"
           /\ method_log[k].method \notin DOMAIN method_context.aliases[method_log[k].class]
           => method_log[k].raised = "" /\ method_log[k].target = "None"

-----------------------------------------------------------------------------
(* Aliases of colliding spellings (SpecAliases) *)

\* C21: whatever methods a class has, its alias map sends every method name,
\* its lowerCamel spelling and its UpperCamel spelling to that method name
C21_EverySpellingMapsToItsMethod ==
    \A k \in 1..Len(method_log) :
        method_log[k].op = "get_aliases" =>
            \A i \in 1..Len(method_log[k].methods) :
                \A key \in {Join(method_log[k].methods[i], ""),
                             Join(to_lower_camel_case(method_log[k].methods[i]), ""),
                             Join(to_upper_camel_case(method_log[k].methods[i]), "")} :
                    /\ key \in DOMAIN method_log[k].aliases
                    /\ method_log[k].aliases[key] = Join(method_log[k].methods[i], "")

-----------------------------------------------------------------------------
(* Claims about the instruction classes (SpecEngine) *)

\* C22: an instruction whose kind is none of make, import, call and
\* callAndAssign appends exactly one row, [id, '__EXCEPTION__:
\* message:<<INVALID_STATEMENT kind>>'], invokes no fixture code, and the loop
\* goes on to the next instruction.
C22_UnknownKindIsOneFailureRow ==
    \A i \in Executed :
        trace[i].kind \notin _INSTRUCTION_TYPES =>
            /\ AppendedOne(trace[i],
                           FailureText(_EXCEPTION, _BAD_INSTRUCTION \o " " \o trace[i].kind))
            /\ ~trace[i].invoked
            /\ ~trace[i].raised
            /\ trace[i].then = "next"

\* an unknown instruction was executed, and the one after it too
C22_Witness ==
    \E i \in Executed :
        /\ trace[i].kind \notin _INSTRUCTION_TYPES
        /\ i < Len(trace)
        /\ trace[i + 1].rows_before = trace[i].rows_after

-----------------------------------------------------------------------------
(* Claims about Make on the context of src/execution.py (SpecInstances) *)

\* C23: a make whose class get_type does not resolve appends a failure row
\* whose cause starts with 'NO_CLASS <name>', and no constructor is invoked
C23_UnresolvedClassIsNoClass ==
    \A k \in 1..Len(method_log) :
        (method_log[k].op = "make" /\ method_log[k].target = NoneTarget.class) =>
            /\ ~method_log[k].invoked
            /\ \E detail \in {NotCallable, "boom", ""} :
                    method_log[k].outcome
                        = FailureText(_EXCEPTION,
                                      _NO_CLASS \o " " \o method_log[k].class \o " " \o detail)

-----------------------------------------------------------------------------
(* Claims about Make (SpecEngine) *)

\* the names under which the batches make the class Fixture
ResolvingNames == {"fix.Fixture", "Fixture"}

\* C24: when the class of a make resolves and its constructor raises, whatever
\* the exception, one failure row is appended whose cause starts with
\* 'COULD_NOT_INVOKE_CONSTRUCTOR <name>'; when the constructor returns, the row
\* is [id, 'OK'] and the new instance is stored under the instance name.
C24_ConstructorFailureIsNamed ==
    \A i \in Executed :
        (trace[i].kind = "make" /\ trace[i].invoked) =>
            IF trace[i].thrown # NoExc
            THEN \E name \in ResolvingNames :
                    AppendedOne(trace[i],
                        FailureText(_EXCEPTION,
                            _NO_CONSTRUCTION \o " " \o name \o " " \o trace[i].thrown.msg))
            ELSE /\ AppendedOne(trace[i], _OK)
                 /\ i = Len(trace) =>
                        /\ trace[i].instance \in DOMAIN context.instances
                        /\ context.instances[trace[i].instance] = PyObject("Fixture")

\* a make of the batch stored an instance under the name of instruction i
\* before instruction i was executed
StoredBefore(i) ==
    \E j \in 1..(i - 1) :
        /\ trace[j].kind = "make"
        /\ trace[j].instance = trace[i].instance
        /\ trace[j].invoked
        /\ trace[j].thrown = NoExc

\* C25: a call or callAndAssign naming an instance that was never stored
\* appends the row [id, '__EXCEPTION__: message:<<NO_INSTANCE name>>'] and
\* invokes no method
C25_MissingInstanceIsNoInstance ==
    \A i \in Executed :
        (trace[i].kind \in {"call", "callAndAssign"} /\ ~StoredBefore(i)) =>
            /\ AppendedOne(trace[i],
                           FailureText(_EXCEPTION, _NO_INSTANCE \o " " \o trace[i].instance))
            /\ ~trace[i].invoked

-----------------------------------------------------------------------------
(* Claims about the instances of the context (SpecInstances) *)

\* C26: what get_instance returns for a name that was never stored differs
\* from what it returns for a name stored with the value None
C26_MissingDiffersFromStoredNone ==
    \A k \in {Len(method_log)} \ {0} :
        (/\ method_log[k].op = "get_instance"
         /\ method_log[k].instance \notin DOMAIN method_context.instances) =>
            \A name \in DOMAIN method_context.instances :
                method_context.instances[name] = PyNone =>
                    get_instance(method_context, name).ty # method_log[k].target

-----------------------------------------------------------------------------
(* Claims about the items pack encodes (SpecPackValues) *)

\* the encoding of a list in which None is 'null', every other item that is
\* no list is its str(), and a list is its own encoding, each after its length
RECURSIVE EncodedList(_)
RECURSIVE EncodedItem(_)

EncodedList(list) ==
    <<_START_CHUNK>>
    \o join_packed(<<_NUMERIC_ENCODING(Len(list))>>
                   \o [i \in 1..Len(list) |-> EncodedItem(list[i])])
    \o <<_END_CHUNK>>

EncodedItem(item) ==
    IF item.is_list
    THEN _ITEM_ENCODING(Len(EncodedList(item.items)), EncodedList(item.items))
    ELSE IF item = PyNoneItem
    THEN <<"0", "0", "0", "0", "0", "4", ":", "n", "u", "l", "l">>
    ELSE _ITEM_ENCODING(Len(str(item)), str(item))

\* C28: pack encodes None as the payload 'null' after the length 000004 and
\* every other item that is no list, string or not, as its str() after the
\* length of its str()
C28_OnlyNoneIsNull ==
    cpc # "start" => packed = EncodedList(item_list)

-----------------------------------------------------------------------------
(* Claims about the rows the client receives (SpecResults) *)

\* the client has unpacked the response that holds the rows collected so far
ResponseIsCurrent ==
    /\ symbol_rows # <<>>
    /\ packed = pack(RowItems(symbol_rows))
    /\ unpacked = unpack(packed)

\* the calls of the run whose method returned value
CallsReturning(value) ==
    {k \in 1..Len(symbol_log) : symbol_log[k].kind = "call" /\ symbol_log[k].value = value}

\* C27: a call whose method returns None has the outcome '/__VOID__/', a call
\* whose method returns the empty string has the empty string as outcome, and
\* the two outcomes differ both in the rows collected and in the rows the
\* client unpacks from the packed response
C27_VoidDiffersFromEmptyString ==
    /\ \A k \in CallsReturning(PyNone) : symbol_rows[k].outcome = _NONE_STRING
    /\ \A k \in CallsReturning(PyStr("")) : symbol_rows[k].outcome = ""
    /\ \A j \in CallsReturning(PyNone), k \in CallsReturning(PyStr("")) :
        /\ symbol_rows[j].outcome # symbol_rows[k].outcome
        /\ ResponseIsCurrent =>
            /\ unpacked.ok
            /\ Len(unpacked.items) = Len(symbol_rows)
            /\ unpacked.items[j].items[2] # unpacked.items[k].items[2]

\* a run with a call returning None and a call returning '', answered
C27_Witness ==
    /\ CallsReturning(PyNone) # {}
    /\ CallsReturning(PyStr("")) # {}
    /\ ResponseIsCurrent

-----------------------------------------------------------------------------
(* Claims about unpack of malformed strings (SpecUnpack) *)

\* n items, each six digits, ':', a payload of that length and ':', fill the
\* string from the offset up to its closing bracket
RECURSIVE WellFormedItems(_, _, _)
WellFormedItems(chars, offset, n) ==
    IF n = 0 THEN offset = Len(chars) - 1
    ELSE /\ offset + _NUMERIC_LENGTH < Len(chars)
         /\ IsDigits(Slice(chars, offset, offset + _NUMERIC_LENGTH))
         /\ chars[offset + _NUMERIC_LENGTH + 1] = _SEPARATOR
         /\ offset + _NUMERIC_LENGTH + 1
                + int(Slice(chars, offset, offset + _NUMERIC_LENGTH)) < Len(chars)
         /\ chars[offset + _NUMERIC_LENGTH + 2
                    + int(Slice(chars, offset, offset + _NUMERIC_LENGTH))] = _SEPARATOR
         /\ WellFormedItems(chars,
                            offset + _NUMERIC_LENGTH + 2
                                + int(Slice(chars, offset, offset + _NUMERIC_LENGTH)),
                            n - 1)

\* '[', the item count in six digits, ':', the items, ']'
WellFormed(chars) ==
    /\ Len(chars) >= _NUMERIC_LENGTH + 3
    /\ Head(chars) = _START_CHUNK
    /\ Last(chars) = _END_CHUNK
    /\ IsDigits(Slice(chars, 1, 1 + _NUMERIC_LENGTH))
    /\ chars[_NUMERIC_LENGTH + 2] = _SEPARATOR
    /\ WellFormedItems(chars, _NUMERIC_LENGTH + 2,
                       int(Slice(chars, 1, 1 + _NUMERIC_LENGTH)))

\* C29: unpack of a string that is no well-formed packed list raises
\* UnpackingError: it raises no other exception and returns no list
C29_MalformedIsUnpackingError ==
    (cpc = "unpacked" /\ ~WellFormed(packed)) =>
        unpacked = UnpackRaised("UnpackingError")

-----------------------------------------------------------------------------
(* Claims about strings beyond ASCII (SpecMultibyte) *)

\* the payloads of a list of strings, as bytes
PayloadBytes(list) == [i \in 1..Len(list) |-> encode(decode(Bytes(list[i])))]

\* C30: pack writes for every item the number of UTF-8 bytes of its payload,
\* unpack cuts every item by that number of bytes, and so a list holding
\* characters beyond ASCII is framed as a client frames it and comes back
\* from unpack, whether pack or a client wrote it
C30_LengthsCountBytes ==
    /\ cpc # "raised"
    /\ cpc \in {"packed", "unpacked"} => packed = FramedBytes(item_list)
    /\ cpc \in {"unpacked", "received"} =>
        /\ unpacked.ok
        /\ Len(unpacked.items) = Len(item_list)
        /\ \A i \in 1..Len(item_list) :
                encode(unpacked.items[i].chars) = PayloadBytes(item_list)[i]

-----------------------------------------------------------------------------
(* Claims about repeated imports (SpecEngine) *)

\* the loop is about to execute an Import that an earlier pass of the same
\* batch already executed with the same argument
RepeatedImport ==
    /\ status = "running"
    /\ pos <= Len(unpacked_list)
    /\ unpacked_list[pos].kind = "import"
    /\ \E j \in 1..(pos - 1) :
            /\ unpacked_list[j].kind = "import"
            /\ unpacked_list[j].import_arg = unpacked_list[pos].import_arg
            /\ Len(collected) >= j
            /\ collected[j] = Row(j, _OK)

\* the names later instructions may ask get_type for
LookupNames == {<<"Fixture">>, <<"fix", "Fixture">>, <<"extra", "Fixture">>, <<"Nope">>}

Entries(seq) == {seq[i] : i \in 1..Len(seq)}

\* C31 as stated: executing the same Import a second time reports OK and leaves
\* the execution context (import path list, type-prefix list, class registry)
\* as the first execution left it.
C31_RepeatedImportLeavesContext ==
    [][RepeatedImport =>
            /\ collected' = Append(collected, Row(unpacked_list[pos].id, _OK))
            /\ context' = context]_vars

\* C31: executing the same Import a second time reports OK, like the first, and
\* changes no lookup: the class registry, the instances and the symbols are
\* untouched, the path list and the type-prefix list hold the same entries as
\* before (the repeated one once more, at the end), and get_type of every name
\* gives what it gave after the first execution.
C31_RepeatedImportChangesNoLookup ==
    [][RepeatedImport =>
            /\ collected' = Append(collected, Row(unpacked_list[pos].id, _OK))
            /\ context'.classes = context.classes
            /\ context'.instances = context.instances
            /\ context'.symbols = context.symbols
            /\ Entries(context'.path) = Entries(context.path)
            /\ Entries(context'.type_prefixes) = Entries(context.type_prefixes)
            /\ Len(context'.path) + Len(context'.type_prefixes)
                    = Len(context.path) + Len(context.type_prefixes) + 1
            /\ \A name \in LookupNames :
                    get_type(context', name) = get_type(context, name)]_vars

C31_Witness ==
    \E i \in Executed : \E j \in Executed :
        /\ i < j
        /\ trace[i].kind = "import" /\ trace[j].kind = "import"
        /\ unpacked_list[i].import_arg = unpacked_list[j].import_arg
        /\ collected[i].outcome = _OK /\ collected[j].outcome = _OK
        /\ Len(context.path) + Len(context.type_prefixes) >= 2
        /\ get_type(context, <<"Fixture">>).ok

-----------------------------------------------------------------------------
(* Claims about import paths and get_module (SpecPaths) *)

LookupCalls == 1..Len(lookup_log)

\* the added directories of the context's path when call number k began
AddedBefore(k) == Entries(lookup_log[k].context_before._path) \cap AddedDirs

\* C32: when the name of a module is found both under a directory added with
\* add_import_path and by the host (on sys.path, or among the loaded modules),
\* get_module returns the module of the added directory, whatever calls of
\* add_import_path and get_module came before.
C32_AddedLocationWins ==
    \A k \in LookupCalls :
        (/\ lookup_log[k].op = "get_module"
         /\ AddedBefore(k) \cap FoundUnder(lookup_log[k].name) # {}
         /\ \/ SysPathEntry \in FoundUnder(lookup_log[k].name)
            \/ lookup_log[k].name \in DOMAIN lookup_log[k].sys_before.modules) =>
            /\ lookup_log[k].ok
            /\ lookup_log[k].module.from \in AddedBefore(k)

-----------------------------------------------------------------------------
(* Claims about type prefixes and get_type (SpecPrefixes) *)

\* the calls of get_type, of either ExecutionContext, with a name without a dot
UndottedGetType(k) ==
    /\ lookup_log[k].op \in {"get_type", "classes.get"}
    /\ lookup_log[k].name \in TypeNames \cup {"ClassWithPythonicMethodNames"}

\* the type prefixes registered when call number k began; the context of
\* src/execution.py has none
PrefixesBefore(k) ==
    IF lookup_log[k].op = "get_type" THEN lookup_log[k].context_before._type_prefixes
    ELSE <<>>

\* when call number k began, a module of the name was loaded or to be found
Importable(k, name) ==
    \/ name \in DOMAIN lookup_log[k].context_before._modules
    \/ name \in DOMAIN lookup_log[k].sys_before.modules
    \/ FoundUnder(name)
            \cap (Entries(lookup_log[k].context_before._path) \cup {SysPathEntry}) # {}

\* prefix number i resolves the name of call number k
Resolves(k, i) ==
    /\ Importable(k, PrefixesBefore(k)[i])
    /\ lookup_log[k].name \in ClassesOf(PrefixesBefore(k)[i])

\* C33: get_type of a name without a dot returns the class found under the
\* first registered prefix, in the order of registration, that resolves the
\* name; if no prefix resolves it, or none is registered, it raises TypeError
\* and returns nothing.
C33_FirstResolvingPrefixOrTypeError ==
    \A k \in LookupCalls :
        UndottedGetType(k) =>
            IF \E i \in 1..Len(PrefixesBefore(k)) : Resolves(k, i)
            THEN \E i \in 1..Len(PrefixesBefore(k)) :
                    /\ Resolves(k, i)
                    /\ \A j \in 1..(i - 1) : ~Resolves(k, j)
                    /\ lookup_log[k].ok
                    /\ lookup_log[k].class.name = lookup_log[k].name
                    /\ lookup_log[k].class.module.name = PrefixesBefore(k)[i]
            ELSE ~lookup_log[k].ok /\ lookup_log[k].error = "TypeError"

\* the same of the get_type of src/src/waferslim/execution.py alone
PrefixOrderOfContext ==
    \A k \in LookupCalls :
        (UndottedGetType(k) /\ lookup_log[k].op = "get_type") =>
            IF \E i \in 1..Len(PrefixesBefore(k)) : Resolves(k, i)
            THEN \E i \in 1..Len(PrefixesBefore(k)) :
                    /\ Resolves(k, i)
                    /\ \A j \in 1..(i - 1) : ~Resolves(k, j)
                    /\ lookup_log[k].ok
                    /\ lookup_log[k].class.name = lookup_log[k].name
                    /\ lookup_log[k].class.module.name = PrefixesBefore(k)[i]
            ELSE ~lookup_log[k].ok /\ lookup_log[k].error = "TypeError"

-----------------------------------------------------------------------------
(* Claims about instances and libraries (SpecStore) *)

\* the calls of store_instance under the name before call number k
StoresBefore(k, name) ==
    {j \in 1..(k - 1) : lookup_log[j].op = "store_instance" /\ lookup_log[j].name = name}

\* the last of them
LastStore(k, name) ==
    CHOOSE j \in StoresBefore(k, name) : \A i \in StoresBefore(k, name) : i <= j

\* get_instance number k returned what the last store_instance under its name
\* stored, whatever was stored under other names since
ReturnsLastStored(k) ==
    /\ lookup_log[k].ok
    /\ lookup_log[k].value = lookup_log[LastStore(k, lookup_log[k].name)].value

LibrariesWith(k, method) ==
    {name \in InstanceNames :
        /\ Context_is_library(name)
        /\ StoresBefore(k, name) # {}
        /\ hasattr(lookup_log[LastStore(k, name)].value, method)}

\* C37: when several stored library instances define the requested method,
\* get_library_method returns the method of the one stored last, a store under
\* a library name that exists counting as the last; when no stored library
\* defines the method it raises AttributeError.
C37_MostRecentLibraryWins ==
    \A k \in LookupCalls :
        lookup_log[k].op = "get_library_method" =>
            IF LibrariesWith(k, lookup_log[k].name[1]) = {}
            THEN ~lookup_log[k].ok /\ lookup_log[k].error = "AttributeError"
            ELSE \E name \in LibrariesWith(k, lookup_log[k].name[1]) :
                    /\ \A other \in LibrariesWith(k, lookup_log[k].name[1]) :
                            LastStore(k, other) <= LastStore(k, name)
                    /\ lookup_log[k].ok
                    /\ lookup_log[k].method
                            = BoundMethod(lookup_log[LastStore(k, name)].value,
                                          lookup_log[k].name[1])

-----------------------------------------------------------------------------
(* Claims about the framing of the message loop (SpecStream) *)

\* the bytes are those of frame m from offset first to offset last, all of them
IsSpan(bytes, first, last) ==
    /\ Len(bytes) = last - first + 1
    /\ \A i \in 1..Len(bytes) :
            bytes[i].offset = first + i - 1 /\ bytes[i].frame = bytes[1].frame

\* C35: for every message the responder consumes the 7 bytes of its header,
\* read from the first byte of the frame, and then the N bytes of its body, N
\* being the value of the header, before it decodes the body: what it decodes
\* is never a part of a body, whatever segments the socket delivers.
C35_DecodesWholeFramesOnly ==
    \A k \in 1..Len(stream_log) :
        /\ stream_log[k].op = "header" =>
                IsSpan(stream_log[k].data, 1, _NUMERIC_LENGTH + 1)
        /\ stream_log[k].op = "body" =>
                /\ stream_log[k - 1].op = "header"
                /\ IsSpan(stream_log[k].data, _NUMERIC_LENGTH + 2,
                          _NUMERIC_LENGTH + 1 + stream_log[k].bufsize)
                /\ stream_log[k].data = <<>>
                        \/ stream_log[k].data[1].frame = stream_log[k - 1].data[1].frame

\* sys.path, sys.modules and __import__ when call number k had returned
SysAfter(k) == IF k < Len(lookup_log) THEN lookup_log[k + 1].sys_before ELSE lookup_sys

\* call number k imported the module: it returned one its context did not hold
ImportedBy(k) ==
    /\ lookup_log[k].op = "get_module"
    /\ lookup_log[k].ok
    /\ lookup_log[k].name \notin DOMAIN lookup_log[k].context_before._modules

-----------------------------------------------------------------------------
(* Claims about the semaphore of get_module (SpecModules, SpecModulesFair) *)

\* the threads between the acquire and the release of get_module
InGetModule == {x \in Contexts : mpc[x] \in {"importing", "imported", "raising"}}

\* at most one thread is in get_module, it is the one that holds the
\* semaphore and the only one whose _path or _import is patched in; with no
\* thread in get_module the semaphore is free and sys.path and __import__ are
\* the real ones
SemaphoreGuardsGetModule ==
    /\ Cardinality(InGetModule) <= 1
    /\ \A x \in InGetModule :
            semaphore = x /\ sys_path = x /\ builtin_import \in {"real", x}
    /\ InGetModule = {} =>
            semaphore = "free" /\ sys_path = "SYSPATH" /\ builtin_import = "real"

\* C38: at most one thread at a time is between the acquire and the release of
\* the semaphore in get_module, with no thread there the semaphore is free (an
\* import that raises releases it too) and nothing is patched, and a thread
\* that waits to enter get_module enters once the holder is through.
C38_SemaphoreSerialisesGetModule ==
    /\ []SemaphoreGuardsGetModule
    /\ \A x \in Contexts : (mpc[x] = "idle") ~> (mpc[x] # "idle")

\* a thread waits at the acquire while the other one's import raises
C38_Witness ==
    \E x \in Contexts : \E y \in Contexts :
        x # y /\ mpc[x] = "idle" /\ mpc[y] = "raising" /\ semaphore = y

\* C39: a module that an isolating context imported (its code was executed by
\* that context's import) is never in the _modules of another such context,
\* whatever the threads do in between; two isolating contexts never hold the
\* same module object.
C39_IsolatedModulesStayApart ==
    \A x \in Contexts : \A y \in Contexts \ {x} :
        (/\ mpc[x] # "none" /\ mpc[y] # "none"
         /\ isolate_imports[x] /\ isolate_imports[y]
         /\ FixtureModule \in DOMAIN modules[y]) =>
            modules[y][FixtureModule] # x

-----------------------------------------------------------------------------
(* Claims about what a failed instruction leaves (SpecEngine) *)

\* the outcomes of the rows of instructions that completed: OK, the void
\* marker, and the string a method returned; every other row is a failure row
CompletedOutcomes == {_OK, _NONE_STRING, "v"}

\* the pass of the loop that is taken appends a failure row
AppendsFailureRow ==
    /\ Len(collected') = Len(collected) + 1
    /\ Last(collected').outcome \notin CompletedOutcomes

====
